---- MODULE Spec2Model ----
(***************************************************************************)
(* Model of the card crawler of gardusig/yugioh (scripts/src/crawl_cards.py)*)
(* Text is modelled as sequences of one-character strings, so that the      *)
(* normalisation, tokenisation and pattern rewriting are computed, not      *)
(* assumed.                                                                 *)
(***************************************************************************)
EXTENDS Integers, Sequences, FiniteSets, TLC

VARIABLES
    \* validate_card_match called on one (page, expected_name) pair
    v_pc, v_html, v_expected, v_result,
    \* parse_card_page called on one (page, card_id, card_name)
    p_pc, p_html, p_id, p_name, p_record,
    \* fetch_card_data resolving one (card_id, card_name):
    \*   r_pc        position: "direct", "search", "results", "done"
    \*   r_i         direct candidates tried so far
    \*   r_tried     tried_patterns
    \*   r_failures  validation_failures
    \*   r_results   the search results of the search page
    \*   r_j         search results examined so far
    \*   r_requests  every HTTP request issued so far, in order
    \*   r_last      the response to the latest request
    \*   r_ret       the returned (card_data, error_reason)
    r_pc, r_id, r_name, r_i, r_tried, r_failures, r_results, r_j,
    \*   r_net       every direct fetch so far ended in a Timeout or a
    \*               ConnectionError (no candidate URL answered)
    r_requests, r_last, r_ret, r_net,
    \* main() of crawl_cards.py driving the worker pool:
    \*   d_main       "collecting", "finished" or "raised"
    \*   d_workers    max_workers of the pool
    \*   d_task       per card id: "queued", "running", "done" (future set)
    \*   d_future     per card id: the future's outcome once done
    \*   d_collected  the futures main has taken from as_completed
    \*   d_completed, d_successful, d_skipped   the progress counters
    \*   d_cards      ids of the rows committed to the cards table
    d_main, d_workers, d_task, d_future, d_collected,
    d_completed, d_successful, d_skipped, d_cards,
    \* main() of run_migrations.py and the database it migrates:
    \*   m_pc          "start", "check", "execute", "record", "commit", "exit"
    \*   m_dry         --dry-run
    \*   m_dir         the migration files in the order glob yields them
    \*   m_migrations  the sorted list of get_migration_files
    \*   m_k           index of the migration the loop is at
    \*   m_count       success_count
    \*   m_exit        the exit code of the run (-1 while running)
    \*   m_schema      files whose script effects are committed
    \*   m_ledger      committed rows of flyway_schema_history
    \*   m_tx          the open transaction: uncommitted effects and rows
    \*   m_run         number of the run
    \*   m_executed    files whose script this run passed to cur.execute
    \*   m_ledger0     the ledger as it was when this run started
    m_pc, m_dry, m_dir, m_migrations, m_k, m_count, m_exit,
    m_schema, m_ledger, m_tx, m_run, m_executed, m_ledger0,
    \* main() of setup.py and the probe check_db.py it starts:
    \*   s_pc      "probe", "migrate", "seed", "exit"
    \*   s_db      the database situation the probe meets
    \*   s_probed  check_database ran to its end (returned or called sys.exit)
    \*   s_state   db_state, the return code of the probe process
    \*   s_ran     the child processes started, with their return codes
    \*   s_exit    the exit code of setup.py (-1 while running)
    s_pc, s_db, s_probed, s_state, s_ran, s_exit,
    \* one call of a pure function of crawl_cards.py:
    \*   f_call      the function called ("none" before any call)
    \*   f_name      the name passed to normalize_name / get_card_url_patterns
    \*   f_level, f_desc   the arguments of calculate_tributes
    \*   f_norm      the value normalize_name returned
    \*   f_urls      the list get_card_url_patterns returned
    \*   f_tributes  the value calculate_tributes returned
    f_call, f_name, f_level, f_desc, f_norm, f_urls, f_tributes,
    \* the cards table and its writers (crawl_cards.py workers, each on its
    \* own connection, or one db_manager.py seed invocation):
    \*   t_mode     "crawl" or "seed"
    \*   t_cards    the committed rows of the cards table
    \*   t_last     per id, the record of the latest successful save
    \*   t_w        per worker: pc ("idle", "executed"), the record being
    \*              saved, and what save_card_to_db returned last
    \*   t_saves    calls of save_card_to_db so far
    \*   t_seed     seed_cards: pc ("start", "loop", "returned", "raised"),
    \*              cards_to_seed, the index of the next row, whether the
    \*              with-block is one transaction, the rows executed in it
    \*              and not yet committed, and the rows whose statement raised
    t_mode, t_cards, t_last, t_w, t_saves, t_seed,
    \* main() of gather_card_data.py and its tasks:
    \*   g_workers  max_workers of the pool
    \*   g_flag     header_written[0]
    \*   g_file     the lines of the output CSV (<<>>: the file does not exist)
    \*   g_t        per task: pc ("queued", "fetch", "read", "save", "set",
    \*              "done"), its local write_header, and the success it returned
    g_workers, g_flag, g_file, g_t

v_vars == <<v_pc, v_html, v_expected, v_result>>
p_vars == <<p_pc, p_html, p_id, p_name, p_record>>
r_vars == <<r_pc, r_id, r_name, r_i, r_tried, r_failures, r_results, r_j,
            r_requests, r_last, r_ret, r_net>>
d_vars == <<d_main, d_workers, d_task, d_future, d_collected,
            d_completed, d_successful, d_skipped, d_cards>>
m_vars == <<m_pc, m_dry, m_dir, m_migrations, m_k, m_count, m_exit,
            m_schema, m_ledger, m_tx, m_run, m_executed, m_ledger0>>
s_vars == <<s_pc, s_db, s_probed, s_state, s_ran, s_exit>>
f_vars == <<f_call, f_name, f_level, f_desc, f_norm, f_urls, f_tributes>>
t_vars == <<t_mode, t_cards, t_last, t_w, t_saves, t_seed>>
g_vars == <<g_workers, g_flag, g_file, g_t>>
n_vars == <<f_vars, t_vars, g_vars>>
vars == <<v_vars, p_vars, r_vars, d_vars, m_vars, s_vars, n_vars>>

----------------------------------------------------------------------------
(* Characters and text                                                      *)

UpperChars == <<"A","B","C","D","E","F","G","H","I","J","K","L","M",
                "N","O","P","Q","R","S","T","U","V","W","X","Y","Z">>
LowerChars == <<"a","b","c","d","e","f","g","h","i","j","k","l","m",
                "n","o","p","q","r","s","t","u","v","w","x","y","z">>
Digits == {"0","1","2","3","4","5","6","7","8","9"}

Range(s) == {s[i] : i \in 1..Len(s)}

\* str.lower() on one character
Lower(c) ==
    IF \E i \in 1..Len(UpperChars) : UpperChars[i] = c
    THEN LowerChars[CHOOSE i \in 1..Len(UpperChars) : UpperChars[i] = c]
    ELSE c

\* the regex class \w: letters, digits and the underscore
IsWordChar(c) == c \in Range(UpperChars) \cup Range(LowerChars) \cup Digits \cup {"_"}

\* the regex class \s
IsSpace(c) == c \in {" ", "\t"}

\* str.strip(): leading and trailing whitespace removed
RECURSIVE StripLeft(_)
StripLeft(s) ==
    IF s # <<>> /\ IsSpace(Head(s)) THEN StripLeft(Tail(s)) ELSE s

RECURSIVE StripRight(_)
StripRight(s) ==
    IF s # <<>> /\ IsSpace(s[Len(s)]) THEN StripRight(SubSeq(s, 1, Len(s) - 1)) ELSE s

Strip(s) == StripRight(StripLeft(s))

\* re.sub(r"\s+", " ", s): every run of whitespace becomes one space
RECURSIVE CollapseSpaces(_)
CollapseSpaces(s) ==
    IF s = <<>> THEN <<>>
    ELSE IF IsSpace(Head(s))
         THEN <<" ">> \o CollapseSpaces(StripLeft(s))
         ELSE <<Head(s)>> \o CollapseSpaces(Tail(s))

\* re.sub(r"[^\w\s]", " ", s)
PunctToSpace(s) ==
    [i \in 1..Len(s) |-> IF IsWordChar(s[i]) \/ IsSpace(s[i]) THEN s[i] ELSE " "]

LowerStr(s) == [i \in 1..Len(s) |-> Lower(s[i])]

normalize_name(name) == Strip(CollapseSpaces(PunctToSpace(LowerStr(name))))

\* str.split(): the maximal runs of non-whitespace characters, in order
RECURSIVE TakeWord(_)
TakeWord(s) ==
    IF s = <<>> \/ IsSpace(Head(s)) THEN <<>> ELSE <<Head(s)>> \o TakeWord(Tail(s))

RECURSIVE Split(_)
Split(s) ==
    LET t == StripLeft(s) IN
    IF t = <<>> THEN <<>>
    ELSE LET w == TakeWord(t) IN <<w>> \o Split(SubSeq(t, Len(w) + 1, Len(t)))

\* the maximal run of digits at the head of s
RECURSIVE TakeDigits(_)
TakeDigits(s) ==
    IF s = <<>> \/ Head(s) \notin Digits THEN <<>> ELSE <<Head(s)>> \o TakeDigits(Tail(s))

\* a in b, for strings
IsSubstring(a, b) ==
    \E i \in 0..Len(b) : i + Len(a) <= Len(b) /\ SubSeq(b, i + 1, i + Len(a)) = a

----------------------------------------------------------------------------
(* get_card_url_patterns                                                    *)

\* str.replace(old, new) for single characters
ReplaceChar(s, old, new) == [i \in 1..Len(s) |-> IF s[i] = old THEN new ELSE s[i]]

\* str.replace(c, "")
RECURSIVE RemoveChar(_, _)
RemoveChar(s, c) ==
    IF s = <<>> THEN <<>>
    ELSE IF Head(s) = c THEN RemoveChar(Tail(s), c)
    ELSE <<Head(s)>> \o RemoveChar(Tail(s), c)

\* re.sub(r"_#(\d+)", r"_\1", s)
RECURSIVE SubUnderscoreHash(_)
SubUnderscoreHash(s) ==
    IF s = <<>> THEN <<>>
    ELSE IF Len(s) >= 3 /\ s[1] = "_" /\ s[2] = "#" /\ s[3] \in Digits
    THEN LET ds == TakeDigits(SubSeq(s, 3, Len(s)))
         IN <<"_">> \o ds \o SubUnderscoreHash(SubSeq(s, 3 + Len(ds), Len(s)))
    ELSE <<Head(s)>> \o SubUnderscoreHash(Tail(s))

\* re.sub(r"#(\d+)", r"_\1", s)
RECURSIVE SubHash(_)
SubHash(s) ==
    IF s = <<>> THEN <<>>
    ELSE IF Len(s) >= 2 /\ s[1] = "#" /\ s[2] \in Digits
    THEN LET ds == TakeDigits(Tail(s))
         IN <<"_">> \o ds \o SubHash(SubSeq(s, 2 + Len(ds), Len(s)))
    ELSE <<Head(s)>> \o SubHash(Tail(s))

RECURSIVE DropUnderscores(_)
DropUnderscores(s) ==
    IF s # <<>> /\ Head(s) = "_" THEN DropUnderscores(Tail(s)) ELSE s

\* re.sub(r"__+", "_", s)
RECURSIVE CollapseUnderscores(_)
CollapseUnderscores(s) ==
    IF s = <<>> THEN <<>>
    ELSE IF Head(s) = "_"
         THEN <<"_">> \o CollapseUnderscores(DropUnderscores(s))
         ELSE <<Head(s)>> \o CollapseUnderscores(Tail(s))

Underscored(card_name) == ReplaceChar(card_name, " ", "_")

pattern1(card_name) ==
    CollapseUnderscores(SubHash(SubUnderscoreHash(Underscored(card_name))))
pattern2(card_name) ==
    CollapseUnderscores(ReplaceChar(SubHash(card_name), " ", "_"))
pattern3(card_name) == Underscored(card_name)
pattern4(card_name) ==
    CollapseUnderscores(SubHash(SubUnderscoreHash(
        RemoveChar(RemoveChar(RemoveChar(Underscored(card_name), ","), "'"), "\""))))
pattern5(card_name) ==
    CollapseUnderscores(SubHash(SubUnderscoreHash(
        RemoveChar(RemoveChar(Underscored(card_name), "'"), "\""))))
pattern6(card_name) ==
    CollapseUnderscores(RemoveChar(Underscored(card_name), "#"))

\* the six variants in generation order
Variants(card_name) ==
    << pattern1(card_name), pattern2(card_name), pattern3(card_name),
       pattern4(card_name), pattern5(card_name), pattern6(card_name) >>

\* if pattern not in pattern_set: pattern_set.add(pattern); patterns.append(...)
RECURSIVE Dedupe(_, _)
Dedupe_KeepAll(seq, seen) == seq

Dedupe(seq, seen) ==
    IF seq = <<>> THEN <<>>
    ELSE IF Head(seq) \in seen THEN Dedupe(Tail(seq), seen)
    ELSE <<Head(seq)>> \o Dedupe(Tail(seq), seen \cup {Head(seq)})

\* the page names of the candidate URLs f"{WIKI_BASE_URL}/{pattern}", in order
get_card_url_patterns(card_name) == Dedupe(Variants(card_name), {})

\* url.split("/")[-1]
RECURSIVE LastSegment(_)
LastSegment(s) ==
    IF "/" \notin Range(s) THEN s ELSE LastSegment(Tail(s))

----------------------------------------------------------------------------
(* validate_card_match                                                      *)

common_words == { <<"t","h","e">>, <<"o","f">>, <<"a">>, <<"a","n">>,
                  <<"a","n","d">>, <<"o","r">> }

\* {w for w in words if w not in common_words and len(w) > 2}
SignificantWords(normalized) ==
    {w \in Range(Split(normalized)) : w \notin common_words /\ Len(w) > 2}

Reason(kind, pct, page) == [kind |-> kind, pct |-> pct, page |-> page]

\* h1 title text of a page, get_text(strip=True); has_title is FALSE when the
\* page has no h1 element
PageName(html) == Strip(html.title)

\* not page_name or len(page_name) < 2
TitleTooShort_AcceptsOneChar(page_name) == page_name = <<>>
TitleTooShort(page_name) == page_name = <<>> \/ Len(page_name) < 2

\* match_ratio >= 0.75, with match_ratio = overlap / total
OverlapThreshold_Strict(overlap, total) == 4 * overlap > 3 * total
OverlapThreshold(overlap, total) == 4 * overlap >= 3 * total

validate_card_match(html, expected_name) ==
    LET page_name == PageName(html) IN
    IF ~html.has_title
    THEN <<FALSE, Reason("No page title found", 0, <<>>)>>
    ELSE IF TitleTooShort(page_name)
    THEN <<FALSE, Reason("Empty or invalid page title", 0, <<>>)>>
    ELSE
    LET page_normalized == normalize_name(page_name)
        expected_normalized == normalize_name(expected_name)
        expected_words == SignificantWords(expected_normalized)
        page_words == SignificantWords(page_normalized)
        overlap == Cardinality(expected_words \cap page_words)
        total == Cardinality(expected_words)
    IN
    IF page_normalized = expected_normalized
    THEN <<TRUE, Reason("Exact match", 0, <<>>)>>
    ELSE IF IsSubstring(expected_normalized, page_normalized)
            \/ IsSubstring(page_normalized, expected_normalized)
    THEN <<TRUE, Reason("Partial match", 0, page_name)>>
    ELSE IF expected_words = {}
    THEN <<TRUE, Reason("No significant words to compare", 0, <<>>)>>
    ELSE IF OverlapThreshold(overlap, total)
    THEN <<TRUE, Reason("High word overlap", (overlap * 100) \div total, page_name)>>
    ELSE <<FALSE, Reason("Low word overlap", (overlap * 100) \div total, page_name)>>

----------------------------------------------------------------------------
(* extract_numeric_value and the page document                              *)

\* Python's None and a present value
None == [some |-> FALSE, val |-> <<>>]
Some(v) == [some |-> TRUE, val |-> v]
NoneInt == [some |-> FALSE, val |-> 0]

\* truthiness of an Optional[str]: neither None nor ""
Truthy(o) == o.some /\ o.val # <<>>

DigitSeq == <<"0","1","2","3","4","5","6","7","8","9">>
DigitVal(c) == (CHOOSE i \in 1..10 : DigitSeq[i] = c) - 1

\* int() of a string of digits
RECURSIVE DigitsToInt(_)
DigitsToInt(ds) ==
    IF ds = <<>> THEN 0 ELSE 10 * DigitsToInt(SubSeq(ds, 1, Len(ds) - 1)) + DigitVal(ds[Len(ds)])

\* positions where the regex -?\d+ can match
NumberStarts(s) ==
    { i \in 1..Len(s) :
        \/ s[i] \in Digits
        \/ s[i] = "-" /\ i < Len(s) /\ s[i + 1] \in Digits }

\* re.search(r"(-?\d+)", text), then int(): the leftmost signed integer
extract_numeric_value(text) ==
    IF text = <<>> \/ NumberStarts(text) = {} THEN NoneInt
    ELSE LET i == CHOOSE k \in NumberStarts(text) : \A m \in NumberStarts(text) : k <= m
         IN IF text[i] = "-"
            THEN Some(0 - DigitsToInt(TakeDigits(SubSeq(text, i + 1, Len(text)))))
            ELSE Some(DigitsToInt(TakeDigits(SubSeq(text, i, Len(text)))))

\* extract_value_from_infobox(soup, data_source): the document records, for
\* each data source, the text the info-panel lookup yields (None or non-empty)
extract_value_from_infobox(html, data_source) == html.infobox[data_source]

\* re.search(pattern, text, re.I) for a pattern that is an alternation of
\* literal words
MatchesAny(text, alternatives) ==
    \E a \in alternatives : IsSubstring(LowerStr(a), LowerStr(text))

\* the td cells of the card table in document order, as <<row, column>>
CellPositions(table) ==
    UNION { { <<r, c>> : c \in 1..Len(table[r]) } : r \in 1..Len(table) }

Before(p, q) == p[1] < q[1] \/ (p[1] = q[1] /\ p[2] < q[2])

First(positions) == CHOOSE p \in positions : \A q \in positions : p = q \/ Before(p, q)

\* card_table.find("td", string=re.compile(pattern, re.I)): the cells whose
\* .string exists and matches
StringMatches(table, alternatives) ==
    { p \in CellPositions(table) :
        table[p[1]][p[2]].simple /\ MatchesAny(table[p[1]][p[2]].text, alternatives) }

\* td.find_next_sibling("td")
HasNextTd(table, p) == p[2] < Len(table[p[1]])
NextTdText(table, p) == table[p[1]][p[2] + 1].text

\* the value cell of the first cell that card_table.find(...) returns
DirectValue(table, alternatives) ==
    LET ms == StringMatches(table, alternatives) IN
    IF ms = {} THEN [found |-> FALSE, value |-> None]
    ELSE IF HasNextTd(table, First(ms))
         THEN [found |-> TRUE, value |-> Some(NextTdText(table, First(ms)))]
         ELSE [found |-> TRUE, value |-> None]

MaxLevel == 12

\* 0 < level_val <= 12
LevelInRange(v) == 0 < v /\ v <= MaxLevel

\* for td in card_table.find_all("td"): the number next to the first cell whose
\* text matches the label, has a next cell and yields an accepted number
ScanValue(table, alternatives, skipQuestionMark, ranged) ==
    LET hits == { p \in CellPositions(table) :
                    /\ MatchesAny(table[p[1]][p[2]].text, alternatives)
                    /\ (skipQuestionMark => "?" \notin Range(table[p[1]][p[2]].text))
                    /\ HasNextTd(table, p)
                    /\ LET v == extract_numeric_value(NextTdText(table, p))
                       IN v.some /\ (ranged => LevelInRange(v.val)) }
    IN IF hits = {} THEN NoneInt
       ELSE extract_numeric_value(NextTdText(table, First(hits)))

\* the table branch of a numeric field: the cell found by string match decides
\* alone when there is one, the scan of all cells runs otherwise
TableNumber(table, alternatives, skipQuestionMark, ranged, current) ==
    LET d == DirectValue(table, alternatives) IN
    IF d.found
    THEN IF d.value.some /\ extract_numeric_value(d.value.val).some
         THEN extract_numeric_value(d.value.val).val
         ELSE current
    ELSE LET sv == ScanValue(table, alternatives, skipQuestionMark, ranged)
         IN IF sv.some THEN sv.val ELSE current

----------------------------------------------------------------------------
(* parse_card_page                                                          *)

sMonster == <<"M","o","n","s","t","e","r">>
sSpell   == <<"S","p","e","l","l">>
sTrap    == <<"T","r","a","p">>

LabelATK       == { <<"A","T","K">>, <<"A","t","t","a","c","k">> }
LabelDEF       == { <<"D","E","F">>, <<"D","e","f","e","n","s","e">> }
LabelLevel     == { <<"L","e","v","e","l">>, <<"S","t","a","r","s">> }
LabelType      == { <<"T","y","p","e">>, <<"C","a","r","d"," ","T","y","p","e">> }
LabelAttribute == { <<"A","t","t","r","i","b","u","t","e">> }
LabelRace      == { <<"P","r","o","p","e","r","t","y">>, <<"S","p","e","c","i","e","s">> }
LabelLore      == { <<"L","o","r","e">>, <<"D","e","s","c","r","i","p","t","i","o","n">>,
                    <<"C","a","r","d"," ","T","e","x","t">>, <<"E","f","f","e","c","t">> }

\* "Monster" / "Spell" / "Trap" by containment; "None" when undetermined
TypeOf(text) ==
    IF IsSubstring(sMonster, text) THEN "Monster"
    ELSE IF IsSubstring(sSpell, text) THEN "Spell"
    ELSE IF IsSubstring(sTrap, text) THEN "Trap"
    ELSE "None"

\* a or b, for two Optional[str]
OrElse(a, b) == IF Truthy(a) THEN a ELSE b

\* type_value.split("/")[0]
RECURSIVE BeforeSlash(_)
BeforeSlash(s) ==
    IF s = <<>> \/ Head(s) = "/" THEN <<>> ELSE <<Head(s)>> \o BeforeSlash(Tail(s))

\* str(n) for n >= 0
RECURSIVE IntToStr(_)
IntToStr(n) ==
    IF n < 10 THEN <<DigitSeq[n + 1]>> ELSE IntToStr(n \div 10) \o <<DigitSeq[(n % 10) + 1]>>

sHttps == <<"h","t","t","p","s",":">>
sWikiHost == sHttps \o <<"/","/","y","u","g","i","o","h",".","f","a","n","d","o","m",".","c","o","m">>
sPlaceholderHost ==
    sHttps \o <<"/","/","i","m","a","g","e","s",".","y","g","o","p","r","o","d","e","c","k",
                ".","c","o","m","/","i","m","a","g","e","s","/","c","a","r","d","s","/">>

StartsWith(s, prefix) == Len(prefix) <= Len(s) /\ SubSeq(s, 1, Len(prefix)) = prefix

\* protocol-relative and root-relative image sources made absolute
AbsoluteImage(src) ==
    IF StartsWith(src, <<"/","/">>) THEN sHttps \o src
    ELSE IF StartsWith(src, <<"/">>) THEN sWikiHost \o src
    ELSE src

PlaceholderImage(card_id) == sPlaceholderHost \o IntToStr(card_id) \o <<".","j","p","g">>

\* cost = level for monsters (level > 0), else 0; computed from the type as
\* extracted, before the missing type is defaulted
CostOf(type, level) ==
    IF type = "Monster" THEN (IF level > 0 THEN level ELSE 0) ELSE 0

\* card_data["name"]: the CSV name, never the page's title
RecordName_FromTitle(html, card_name) == Strip(html.title)
RecordName(html, card_name) == card_name

parse_card_page(html, card_id, card_name) ==
    LET infobox == html.has_infobox
        card_table == html.has_table
        container == infobox \/ card_table
        table == html.table
        \* Method 1: the info-panel
        atk_text == OrElse(extract_value_from_infobox(html, "atk"),
                           extract_value_from_infobox(html, "attack"))
        def_text == OrElse(extract_value_from_infobox(html, "def"),
                           extract_value_from_infobox(html, "defense"))
        level_text == OrElse(extract_value_from_infobox(html, "level"),
                             extract_value_from_infobox(html, "stars"))
        type_text == extract_value_from_infobox(html, "type")
        attr_text == extract_value_from_infobox(html, "attribute")
        race_text == OrElse(extract_value_from_infobox(html, "property"),
                            extract_value_from_infobox(html, "species"))
        Num1(text) == IF infobox /\ Truthy(text) /\ extract_numeric_value(text.val).some
                      THEN extract_numeric_value(text.val).val ELSE 0
        atk1 == Num1(atk_text)
        def1 == Num1(def_text)
        level1 == Num1(level_text)
        type1 == IF infobox /\ Truthy(type_text) THEN TypeOf(type_text.val) ELSE "None"
        attr1 == IF infobox /\ Truthy(attr_text) THEN Some(Strip(attr_text.val)) ELSE None
        race1 == IF infobox /\ Truthy(race_text) THEN Some(Strip(race_text.val)) ELSE None
        \* Method 2: the card table
        atk2 == IF card_table /\ atk1 = 0
                THEN TableNumber(table, LabelATK, TRUE, FALSE, atk1) ELSE atk1
        def2 == IF card_table /\ def1 = 0
                THEN TableNumber(table, LabelDEF, TRUE, FALSE, def1) ELSE def1
        level2 == IF card_table /\ level1 = 0
                  THEN TableNumber(table, LabelLevel, FALSE, TRUE, level1) ELSE level1
        type_cell == DirectValue(table, LabelType)
        type2 == IF card_table /\ type1 = "None" /\ type_cell.found /\ type_cell.value.some
                 THEN TypeOf(type_cell.value.val) ELSE type1
        attr_cell == DirectValue(table, LabelAttribute)
        attr2 == IF card_table /\ ~Truthy(attr1) /\ attr_cell.found /\ attr_cell.value.some
                 THEN Some(attr_cell.value.val) ELSE attr1
        race_cell == DirectValue(table, LabelRace)
        race2 == IF card_table /\ ~Truthy(race1)
                 THEN IF ~race_cell.found
                      THEN IF type_cell.found /\ type_cell.value.some
                              /\ "/" \in Range(type_cell.value.val)
                           THEN Some(Strip(BeforeSlash(type_cell.value.val)))
                           ELSE race1
                      ELSE IF race_cell.value.some THEN Some(race_cell.value.val) ELSE race1
                 ELSE race1
        \* image and description
        image1 == IF container /\ Truthy(html.img_src)
                  THEN Some(AbsoluteImage(html.img_src.val)) ELSE None
        lore_text == OrElse(extract_value_from_infobox(html, "lore"),
                            OrElse(extract_value_from_infobox(html, "description"),
                                   extract_value_from_infobox(html, "effect")))
        desc1 == IF infobox /\ Truthy(lore_text) THEN lore_text ELSE None
        lore_cell == DirectValue(table, LabelLore)
        desc2 == IF card_table /\ ~Truthy(desc1) /\ lore_cell.found /\ lore_cell.value.some
                 THEN Some(lore_cell.value.val) ELSE desc1
        desc3 == IF ~Truthy(IF container THEN desc2 ELSE None) /\ html.lore_div.some
                 THEN html.lore_div
                 ELSE IF container THEN desc2 ELSE None
        final_level == IF container THEN level2 ELSE 0
        extracted_type == IF container THEN type2 ELSE "None"
    IN
    [ id |-> card_id,
      name |-> RecordName(html, card_name),
      type |-> IF extracted_type = "None" THEN "Monster" ELSE extracted_type,
      level |-> final_level,
      attack_points |-> IF container THEN atk2 ELSE 0,
      defense_points |-> IF container THEN def2 ELSE 0,
      cost |-> CostOf(extracted_type, final_level),
      description |-> desc3,
      image |-> IF Truthy(image1) THEN image1.val ELSE PlaceholderImage(card_id),
      attribute |-> IF container THEN attr2 ELSE None,
      race |-> IF container THEN race2 ELSE None,
      rarity |-> None ]

----------------------------------------------------------------------------
(* Card names and page titles the checks draw from                          *)

wRed    == <<"R","e","d">>
wEyes   == <<"E","y","e","s">>
wBlack  == <<"B","l","a","c","k">>
wDragon == <<"D","r","a","g","o","n">>
wChick  == <<"C","h","i","c","k">>
wOf     == <<"o","f">>
wThe    == <<"T","h","e">>
wB      == <<"B">>
SP      == <<" ">>

RedEyes == wRed \o <<"-">> \o wEyes

\* "Red-Eyes Black Dragon": four significant words
NameRedEyesBlackDragon == RedEyes \o SP \o wBlack \o SP \o wDragon
\* "Black Dragon #1"
NameBlackDragon1 == wBlack \o SP \o wDragon \o SP \o <<"#","1">>
\* "The B of B": no significant word
NameTheBofB == wThe \o SP \o wB \o SP \o wOf \o SP \o wB
\* "B": a one-character name
NameB == wB
\* "Black, 'Chick'"
NameBlackChick == wBlack \o <<",">> \o SP \o <<"'">> \o wChick \o <<"'">>
\* "Black_Dragon"
NameBlack_Dragon == wBlack \o <<"_">> \o wDragon

CardNames == { NameRedEyesBlackDragon, NameBlackDragon1, NameTheBofB, NameB,
               NameBlackChick, NameBlack_Dragon }

MaxTitleWords == 3

TitleVocabulary == { RedEyes, wBlack, wDragon, wChick, wB }

RECURSIVE JoinWords(_)
JoinWords(ws) ==
    IF ws = <<>> THEN <<>>
    ELSE IF Len(ws) = 1 THEN ws[1]
    ELSE ws[1] \o SP \o JoinWords(Tail(ws))

\* titles of up to MaxTitleWords vocabulary words, and some irregular ones
GeneratedTitles ==
    { JoinWords(ws) : ws \in UNION { [1..n -> TitleVocabulary] : n \in 0..MaxTitleWords } }

IrregularTitles ==
    { <<"-","-">>,                               \* normalizes to the empty string
      SP \o wB \o SP,                            \* one character once stripped
      wThe \o SP \o wChick \o SP \o wOf \o SP \o wB,
      <<"b","l","a","c","k">> \o SP \o <<"D","R","A","G","O","N">> \o SP \o <<"1">>,
      wBlack \o SP \o wDragon \o SP \o <<"(">> \o wChick \o <<")">>,
      NameBlack_Dragon }

Pages ==
    { [has_title |-> TRUE, title |-> t] : t \in GeneratedTitles \cup IrregularTitles }
    \cup { [has_title |-> FALSE, title |-> <<>>] }

----------------------------------------------------------------------------
(* Specification: one call of validate_card_match                           *)

V_Idle ==
    /\ v_pc = "idle" /\ v_html = <<>> /\ v_expected = <<>> /\ v_result = <<>>

P_Idle ==
    /\ p_pc = "idle" /\ p_html = <<>> /\ p_id = 0 /\ p_name = <<>> /\ p_record = <<>>

R_Idle ==
    /\ r_pc = "idle" /\ r_id = 0 /\ r_name = <<>> /\ r_i = 0 /\ r_tried = <<>>
    /\ r_failures = <<>> /\ r_results = <<>> /\ r_j = 0 /\ r_requests = <<>>
    /\ r_last = <<>> /\ r_ret = <<>> /\ r_net = TRUE

D_Idle ==
    /\ d_main = "idle" /\ d_workers = 0 /\ d_task = <<>> /\ d_future = <<>>
    /\ d_collected = {} /\ d_completed = 0 /\ d_successful = 0 /\ d_skipped = 0
    /\ d_cards = {}

\* a transaction without uncommitted work
NoTx == [schema |-> {}, rows |-> <<>>]

M_Idle ==
    /\ m_pc = "idle" /\ m_dry = FALSE /\ m_dir = <<>> /\ m_migrations = <<>>
    /\ m_k = 0 /\ m_count = 0 /\ m_exit = 0 /\ m_schema = {} /\ m_ledger = <<>>
    /\ m_tx = NoTx /\ m_run = 0 /\ m_executed = <<>> /\ m_ledger0 = <<>>

S_Idle ==
    /\ s_pc = "idle" /\ s_db = <<>> /\ s_probed = FALSE /\ s_state = 0
    /\ s_ran = <<>> /\ s_exit = 0

F_Idle ==
    /\ f_call = "none" /\ f_name = <<>> /\ f_level = 0 /\ f_desc = None
    /\ f_norm = <<>> /\ f_urls = <<>> /\ f_tributes = 0

T_Idle ==
    /\ t_mode = "idle" /\ t_cards = {} /\ t_last = {} /\ t_w = <<>>
    /\ t_saves = 0 /\ t_seed = <<>>

G_Idle == g_workers = 0 /\ g_flag = FALSE /\ g_file = <<>> /\ g_t = <<>>

N_Idle == F_Idle /\ T_Idle /\ G_Idle

InitValidate ==
    /\ v_pc = "call"
    /\ v_html \in Pages
    /\ v_expected \in CardNames
    /\ v_result = <<FALSE, Reason("", 0, <<>>)>>
    /\ P_Idle /\ R_Idle /\ D_Idle /\ M_Idle /\ S_Idle /\ N_Idle

Validate ==
    /\ v_pc = "call"
    /\ v_result' = validate_card_match(v_html, v_expected)
    /\ v_pc' = "return"
    /\ UNCHANGED <<v_html, v_expected, p_vars, r_vars, d_vars, m_vars, s_vars, n_vars>>

NextValidate == Validate

SpecValidate == InitValidate /\ [][NextValidate]_vars

----------------------------------------------------------------------------
(* Properties of validate_card_match                                        *)

StopWords == { <<"t","h","e">>, <<"o","f">>, <<"a">>, <<"a","n">>,
               <<"a","n","d">>, <<"o","r">> }

\* the significant words of a name, as the specification words them: the
\* words of the normalized name that are no stop word and longer than 2
SpecSignificant(name) ==
    { w \in Range(Split(normalize_name(name))) : w \notin StopWords /\ Len(w) >= 3 }

V_TitleInvalid == ~v_html.has_title \/ Len(PageName(v_html)) < 2
V_Exact == normalize_name(PageName(v_html)) = normalize_name(v_expected)
V_Substring ==
    \/ IsSubstring(normalize_name(v_expected), normalize_name(PageName(v_html)))
    \/ IsSubstring(normalize_name(PageName(v_html)), normalize_name(v_expected))
V_Shared == SpecSignificant(v_expected) \cap SpecSignificant(PageName(v_html))
V_OverlapRegime ==
    /\ v_pc = "return"
    /\ ~V_TitleInvalid /\ ~V_Exact /\ ~V_Substring
    /\ SpecSignificant(v_expected) # {}

\* C8: when the title is valid, neither the exact nor the substring rule
\* applies and the expected name has a significant word, the page is accepted
\* if and only if |expected /\ page| / |expected| >= 0.75 over the significant
\* words (3 of 4 accepted, 2 of 4 rejected); the verdict depends on the page
\* only through the words it shares with the expected name.
C8_OverlapRule ==
    V_OverlapRegime =>
        /\ v_result[1] <=>
              (100 * Cardinality(V_Shared) >= 75 * Cardinality(SpecSignificant(v_expected)))
        /\ (Cardinality(SpecSignificant(v_expected)) = 4 /\ Cardinality(V_Shared) = 3)
              => v_result[1]
        /\ (Cardinality(SpecSignificant(v_expected)) = 4 /\ Cardinality(V_Shared) = 2)
              => ~v_result[1]

\* a page sharing exactly 3 of 4 significant words, and having a word the
\* expected name lacks, was accepted by the overlap rule
C8_Witness ==
    /\ V_OverlapRegime
    /\ Cardinality(SpecSignificant(v_expected)) = 4
    /\ Cardinality(V_Shared) = 3
    /\ SpecSignificant(PageName(v_html)) \ SpecSignificant(v_expected) # {}
    /\ v_result[1]
    /\ v_result[2].kind = "High word overlap"

\* C9: the verdict and reason are those of the first satisfied rule, in the
\* order: (1) no title or title shorter than 2 characters rejects, even when
\* the title equals the expected name; (2) equal normalized names accept with
\* "Exact match"; (3) one normalized name a substring of the other accepts
\* with "Partial match"; (4) no significant expected word accepts with "No
\* significant words"; (5) the overlap-ratio rule.
C9_Ladder ==
    v_pc = "return" =>
        LET r1 == V_TitleInvalid
            r2 == V_Exact
            r3 == V_Substring
            r4 == SpecSignificant(v_expected) = {}
            kind == v_result[2].kind
        IN
        /\ r1 => /\ ~v_result[1]
                 /\ kind \in {"No page title found", "Empty or invalid page title"}
        /\ (~r1 /\ r2) => (v_result[1] /\ kind = "Exact match")
        /\ (~r1 /\ ~r2 /\ r3) => (v_result[1] /\ kind = "Partial match")
        /\ (~r1 /\ ~r2 /\ ~r3 /\ r4)
              => (v_result[1] /\ kind = "No significant words to compare")
        /\ (~r1 /\ ~r2 /\ ~r3 /\ ~r4)
              => /\ kind \in {"High word overlap", "Low word overlap"}
                 /\ v_result[1] <=> (kind = "High word overlap")

\* a one-character title equal to the expected name was rejected by rule (1)
C9_Witness ==
    /\ v_pc = "return"
    /\ v_html.has_title
    /\ PageName(v_html) = v_expected
    /\ Len(v_expected) = 1
    /\ ~v_result[1]
    /\ v_result[2].kind = "Empty or invalid page title"

----------------------------------------------------------------------------
(* Page documents parse_card_page is checked on                             *)

InfoboxKeys == { "atk", "attack", "def", "defense", "level", "stars", "type",
                 "attribute", "property", "species", "lore", "description", "effect" }

EmptyInfobox == [k \in InfoboxKeys |-> None]

Cell(text) == [text |-> text, simple |-> TRUE]
\* a cell whose text sits in nested markup, so that td.string is None
NestedCell(text) == [text |-> text, simple |-> FALSE]

sLevel == <<"L","e","v","e","l">>
sCardType == <<"C","a","r","d"," ","T","y","p","e">>

LevelTexts == { None, Some(<<"7">>), Some(<<"0">>), Some(<<"-","3">>),
                Some(<<"L","v",".","4">>), Some(<<"?">>) }

TypeTexts == { None, Some(sMonster), Some(sSpell \o <<" ","C","a","r","d">>),
               Some(wDragon \o <<" ","/"," ">> \o <<"E","f","f","e","c","t">>) }

AtkTexts == { None, Some(<<"2","4","0","0">>) }

MaxRows == 1

TableRows ==
    { << Cell(sLevel), Cell(<<"1","2">>) >>,
      << Cell(sLevel), Cell(<<"1","3">>) >>,
      << NestedCell(sLevel), Cell(<<"1","3">>) >>,
      << NestedCell(<<"S","t","a","r","s">>), Cell(<<"5">>) >>,
      << Cell(sLevel) >>,
      << Cell(sCardType), Cell(sTrap \o <<" ","C","a","r","d">>) >>,
      << Cell(<<"T","y","p","e">>), Cell(wDragon \o <<" ","/"," ">> \o sMonster) >>,
      << Cell(<<"A","T","K">>), Cell(<<"?">>), Cell(<<"D","E","F">>), Cell(<<"-","1">>) >> }

\* tables whose first Level row is out of range and is followed by another
TwoRowTables ==
    { << << NestedCell(sLevel), Cell(<<"1","3">>) >>,
         << NestedCell(<<"S","t","a","r","s">>), Cell(<<"5">>) >> >>,
      << << NestedCell(sLevel), Cell(<<"0">>) >>,
         << Cell(sLevel), Cell(<<"1","0","0">>) >> >>,
      << << Cell(sCardType), Cell(sSpell) >>,
         << Cell(sLevel), Cell(<<"1","2">>) >> >> }

Tables == UNION { [1..n -> TableRows] : n \in 0..MaxRows } \cup TwoRowTables

Docs ==
    { [ has_title |-> TRUE, title |-> wBlack \o SP \o wDragon,
        has_infobox |-> hi,
        infobox |-> [k \in InfoboxKeys |->
                        IF ~hi THEN None
                        ELSE IF k = "level" THEN lv
                        ELSE IF k = "type" THEN ty
                        ELSE IF k = "atk" THEN at
                        ELSE None],
        has_table |-> t # <<>>,
        table |-> t,
        img_src |-> IF hi THEN Some(<<"/","/","x",".","p","n","g">>) ELSE None,
        lore_div |-> None ] :
      hi \in BOOLEAN, lv \in LevelTexts, ty \in TypeTexts, at \in AtkTexts, t \in Tables }

ParseIds == { 1, 12 }
ParseNames == { NameBlackDragon1 }

----------------------------------------------------------------------------
(* Specification: one call of parse_card_page                               *)

InitParse ==
    /\ p_pc = "call"
    /\ p_html \in Docs
    /\ p_id \in ParseIds
    /\ p_name \in ParseNames
    /\ p_record = <<>>
    /\ V_Idle /\ R_Idle /\ D_Idle /\ M_Idle /\ S_Idle /\ N_Idle

Parse ==
    /\ p_pc = "call"
    /\ p_record' = parse_card_page(p_html, p_id, p_name)
    /\ p_pc' = "return"
    /\ UNCHANGED <<p_html, p_id, p_name, v_vars, r_vars, d_vars, m_vars, s_vars, n_vars>>

NextParse == Parse

SpecParse == InitParse /\ [][NextParse]_vars

----------------------------------------------------------------------------
(* Properties of parse_card_page                                            *)

\* C10: every record has cost = level when its type is Monster and cost = 0
\* otherwise, also when the type was defaulted to Monster.
C10_CostFromTypeAndLevel ==
    p_pc = "return" =>
        p_record.cost = (IF p_record.type = "Monster" THEN p_record.level ELSE 0)

\* C11: the record of parse_card_page has the id and the name it was called
\* with; the name is not the fetched page's title, also for a page that
\* validate_card_match accepts by a partial match.
C11_NameAndIdAreTheInputs ==
    p_pc = "return" => p_record.id = p_id /\ p_record.name = p_name

C11_Witness ==
    /\ p_pc = "return"
    /\ validate_card_match(p_html, p_name)[1]
    /\ validate_card_match(p_html, p_name)[2].kind = "Partial match"
    /\ PageName(p_html) # p_name
    /\ p_record.name = p_name
    /\ p_record.id = 12

\* C12: every record has level >= 0, and level = 0 when its type is Spell or
\* Trap, whichever layout the level was read from.
C12_LevelNonNegativeZeroForSpellTrap ==
    p_pc = "return" =>
        /\ p_record.level >= 0
        /\ p_record.type \in {"Spell", "Trap"} => p_record.level = 0

\* what the info-panel supplies for a numeric field: the number in the text of
\* the first of the two data sources that has text
A_Number(html, first, second) ==
    LET text == OrElse(extract_value_from_infobox(html, first),
                       extract_value_from_infobox(html, second))
    IN IF html.has_infobox /\ Truthy(text) THEN extract_numeric_value(text.val)
       ELSE NoneInt

\* the level is read from the card table: the info-panel left it at 0
P_LevelFromTable ==
    /\ p_html.has_table
    /\ LET a == A_Number(p_html, "level", "stars") IN ~a.some \/ a.val = 0

\* C13: a level read from the card table is within 1..12 or stays 0, whether
\* the Level/Stars cell was found by the direct match or by the scan.
C13_TableLevelWithinRange ==
    p_pc = "return" /\ P_LevelFromTable => p_record.level \in 0..MaxLevel

\* the type the info-panel supplies
A_Type(html) ==
    LET text == extract_value_from_infobox(html, "type")
    IN IF html.has_infobox /\ Truthy(text) THEN TypeOf(text.val) ELSE "None"

\* C14: a field the info-panel supplied is not replaced by a value of the card
\* table, for every supplied value, zero included.
C14_TableOnlyFillsMissingFields ==
    p_pc = "return" =>
        /\ A_Number(p_html, "atk", "attack").some =>
               p_record.attack_points = A_Number(p_html, "atk", "attack").val
        /\ A_Number(p_html, "def", "defense").some =>
               p_record.defense_points = A_Number(p_html, "def", "defense").val
        /\ A_Number(p_html, "level", "stars").some =>
               p_record.level = A_Number(p_html, "level", "stars").val
        /\ A_Type(p_html) # "None" => p_record.type = A_Type(p_html)

----------------------------------------------------------------------------
(* Cards, pages and search results fetch_card_data is checked on            *)

\* the outcome of requests.get: a response with a status code, or an exception
\* (Timeout and ConnectionError are RequestExceptions; "Exception" is any other)
Response(outcome, status, html) == [outcome |-> outcome, status |-> status, html |-> html]

ResolverIds == { 12 }

\* one, three and one candidate URLs; the last has no significant word
ResolverNames == { NameRedEyesBlackDragon, NameBlackChick, NameTheBofB }

\* a card page with the given h1 title
CardPage(title) ==
    [ has_title |-> TRUE, title |-> title,
      has_infobox |-> TRUE,
      infobox |-> [k \in InfoboxKeys |->
                      IF k = "level" THEN Some(<<"7">>)
                      ELSE IF k = "type" THEN Some(sMonster)
                      ELSE None],
      has_table |-> FALSE, table |-> <<>>,
      img_src |-> None, lore_div |-> None ]

\* a page without h1, and the placeholder where no body was received
UntitledPage == [CardPage(<<>>) EXCEPT !.has_title = FALSE]
NoPage == [CardPage(<<>>) EXCEPT !.has_title = FALSE, !.has_infobox = FALSE,
                                 !.infobox = EmptyInfobox]

TitleBlackRedEyesChick == wBlack \o SP \o RedEyes \o SP \o wChick
TitleChickDragon == wChick \o SP \o wDragon

\* "Black Red-Eyes Chick" is accepted for every card name above, "Chick Dragon"
\* is rejected for the first two
FetchedPages == { CardPage(TitleBlackRedEyesChick), CardPage(TitleChickDragon) }

\* what one page request can end in
DirectResponses ==
    { Response("ok", 200, pg) : pg \in FetchedPages }
    \cup { Response("ok", 404, NoPage), Response("ok", 500, NoPage),
           Response("Timeout", 0, NoPage), Response("ConnectionError", 0, NoPage),
           Response("Exception", 0, NoPage) }

SearchResult(title, has_href) == [title |-> title, has_href |-> has_href]

MaxShortList == 2

ResultEntries ==
    { SearchResult(TitleBlackRedEyesChick, TRUE), SearchResult(TitleChickDragon, TRUE),
      SearchResult(TitleBlackRedEyesChick, FALSE) }

\* six results: more than the five that are examined
LongLists ==
    { [k \in 1..6 |-> IF k = 6 THEN SearchResult(TitleBlackRedEyesChick, TRUE)
                                ELSE SearchResult(TitleChickDragon, TRUE)],
      [k \in 1..6 |-> SearchResult(TitleBlackRedEyesChick, TRUE)] }

ResultLists ==
    UNION { [1..n -> ResultEntries] : n \in 0..MaxShortList } \cup LongLists

\* what the search request can end in
SearchResponses ==
    { [outcome |-> "ok", status |-> 200, results |-> rs] : rs \in ResultLists }
    \cup { [outcome |-> o, status |-> st, results |-> <<>>] :
             o \in {"ok"}, st \in {404, 500} }
    \cup { [outcome |-> o, status |-> 0, results |-> <<>>] :
             o \in {"Timeout", "ConnectionError", "Exception"} }

----------------------------------------------------------------------------
(* fetch_card_data                                                          *)

SearchLimit == 5

IsRequestException(resp) == resp.outcome \in {"Timeout", "ConnectionError"}

\* the quick check of a search result's title before its page is fetched:
\* FALSE when the result is skipped
PreFilter_AlwaysFetch(result_title, card_name) == TRUE
PreFilter(result_title, card_name) ==
    LET result_normalized == normalize_name(result_title)
        expected_normalized == normalize_name(card_name)
        result_words == SignificantWords(result_normalized)
        expected_words == SignificantWords(expected_normalized)
    IN \/ result_normalized = expected_normalized
       \/ expected_words = {}
       \/ ~(4 * Cardinality(expected_words \cap result_words)
              < 3 * Cardinality(expected_words))

\* tried_patterns[:3]
FirstThree(seq) == SubSeq(seq, 1, IF Len(seq) < 3 THEN Len(seq) ELSE 3)

\* the error_reason strings, by their parts
Failure(kind, tried, search, n_results, validation) ==
    [ kind |-> kind, tried |-> Len(tried), examples |-> FirstThree(tried),
      search |-> search, n_results |-> n_results, validation |-> validation ]

NoValidation == [some |-> FALSE, val |-> <<>>]
FirstFailure(failures) == IF failures = <<>> THEN NoValidation ELSE Some(failures[1])
LastFailure(failures) == IF failures = <<>> THEN NoValidation ELSE Some(failures[Len(failures)])

\* a validation_failures entry: the reason, and the search result's title
\* when the page came from the search
FailureEntry(result_title, reason) == [search_result |-> result_title, reason |-> reason]

ReturnCard(card_data) == [card_data |-> Some(card_data), error_reason |-> None]
ReturnError(reason) == [card_data |-> None, error_reason |-> Some(reason)]
Pending == [card_data |-> None, error_reason |-> None]

\* results[:5]
Considered_All(results) == Len(results)
Considered(results) == IF Len(results) < SearchLimit THEN Len(results) ELSE SearchLimit

\* for url in patterns: the (i)th candidate
CandidateAt_Reversed(patterns, i) == patterns[Len(patterns) + 1 - i]
CandidateAt(patterns, i) == patterns[i]

\* where the loop stands after candidate i of n was not accepted: `continue`
\* on every path, the search once the candidates ran out
NextDirect_StopOnError(resp, i, n) ==
    IF resp.outcome # "ok" \/ resp.status = 404 \/ i = n THEN "search" ELSE "direct"
NextDirect_SearchAfterFirst(resp, i, n) == "search"
NextDirect(resp, i, n) == IF i = n THEN "search" ELSE "direct"

\* one iteration of `for url in patterns`
TryDirect ==
    /\ r_pc = "direct"
    /\ r_i < Len(get_card_url_patterns(r_name))
    /\ \E resp \in DirectResponses :
        LET patterns == get_card_url_patterns(r_name)
            url == CandidateAt(patterns, r_i + 1)
            verdict == validate_card_match(resp.html, r_name)
        IN
        /\ r_tried' = Append(r_tried, LastSegment(url))
        /\ r_requests' = Append(r_requests, [kind |-> "direct", target |-> url])
        /\ r_last' = resp
        /\ r_i' = r_i + 1
        /\ r_net' = (r_net /\ IsRequestException(resp))
        /\ IF resp.outcome = "ok" /\ resp.status = 200 /\ verdict[1]
           THEN /\ r_ret' = ReturnCard(parse_card_page(resp.html, r_id, r_name))
                /\ r_pc' = "done"
                /\ UNCHANGED r_failures
           ELSE /\ r_failures' =
                     IF resp.outcome = "ok" /\ resp.status = 200
                     THEN Append(r_failures, FailureEntry(<<>>, verdict[2]))
                     ELSE r_failures
                /\ r_pc' = NextDirect(resp, r_i + 1, Len(patterns))
                /\ UNCHANGED r_ret
    /\ UNCHANGED <<r_id, r_name, r_results, r_j, v_vars, p_vars, d_vars, m_vars, s_vars, n_vars>>

\* the search request and the handling of its response up to the results loop
Search ==
    /\ r_pc = "search"
    /\ \E resp \in SearchResponses :
        /\ r_requests' = Append(r_requests, [kind |-> "search", target |-> r_name])
        /\ r_last' = [outcome |-> resp.outcome, status |-> resp.status, html |-> NoPage]
        /\ IF IsRequestException(resp)
           THEN /\ r_ret' = ReturnError(Failure("Network error", r_tried,
                                                "unavailable", 0, NoValidation))
                /\ r_pc' = "done" /\ UNCHANGED r_results
           ELSE IF resp.outcome # "ok"
           THEN /\ r_ret' = ReturnError(Failure("Search error", r_tried,
                                                "failed", 0, NoValidation))
                /\ r_pc' = "done" /\ UNCHANGED r_results
           ELSE IF resp.status # 200
           THEN /\ r_ret' = ReturnError(Failure("Not found", r_tried, "not examined", 0,
                                                FirstFailure(r_failures)))
                /\ r_pc' = "done" /\ UNCHANGED r_results
           ELSE IF resp.results = <<>>
           THEN /\ r_ret' = ReturnError(Failure("Not found", r_tried, "no results", 0,
                                                FirstFailure(r_failures)))
                /\ r_pc' = "done" /\ UNCHANGED r_results
           ELSE /\ r_results' = resp.results
                /\ r_pc' = "results"
                /\ UNCHANGED r_ret
    /\ UNCHANGED <<r_id, r_name, r_net, r_i, r_tried, r_failures, r_j, v_vars, p_vars, d_vars, m_vars, s_vars, n_vars>>

\* the return after `for result in results[:5]` ran out
NoneMatched(failures) ==
    ReturnError(Failure("Not found", r_tried, "none matched", Len(r_results),
                        LastFailure(failures)))

\* one iteration of `for result in results[:5]` on a result the quick check skips
SkipResult ==
    /\ r_pc = "results"
    /\ r_j < Considered(r_results)
    /\ ~PreFilter(r_results[r_j + 1].title, r_name)
    /\ r_j' = r_j + 1
    /\ IF r_j + 1 = Considered(r_results)
       THEN r_ret' = NoneMatched(r_failures) /\ r_pc' = "done"
       ELSE UNCHANGED <<r_ret, r_pc>>
    /\ UNCHANGED <<r_id, r_name, r_net, r_i, r_tried, r_failures, r_results, r_requests,
                   r_last, v_vars, p_vars, d_vars, m_vars, s_vars, n_vars>>

\* ... on a result without href: card_url.startswith raises outside the inner try
ResultWithoutLink ==
    /\ r_pc = "results"
    /\ r_j < Considered(r_results)
    /\ PreFilter(r_results[r_j + 1].title, r_name)
    /\ ~r_results[r_j + 1].has_href
    /\ r_j' = r_j + 1
    /\ r_ret' = ReturnError(Failure("Search error", r_tried, "failed", 0, NoValidation))
    /\ r_pc' = "done"
    /\ UNCHANGED <<r_id, r_name, r_net, r_i, r_tried, r_failures, r_results, r_requests,
                   r_last, v_vars, p_vars, d_vars, m_vars, s_vars, n_vars>>

\* ... on a result whose page is fetched and validated
FetchResult ==
    /\ r_pc = "results"
    /\ r_j < Considered(r_results)
    /\ PreFilter(r_results[r_j + 1].title, r_name)
    /\ r_results[r_j + 1].has_href
    /\ \E resp \in DirectResponses :
        LET result_title == r_results[r_j + 1].title
            verdict == validate_card_match(resp.html, r_name)
            failures == IF resp.outcome = "ok" /\ resp.status = 200 /\ ~verdict[1]
                        THEN Append(r_failures, FailureEntry(result_title, verdict[2]))
                        ELSE r_failures
        IN
        /\ r_requests' = Append(r_requests, [kind |-> "result", target |-> <<r_j + 1>>])
        /\ r_last' = resp
        /\ r_j' = r_j + 1
        /\ r_failures' = failures
        /\ IF resp.outcome = "ok" /\ resp.status = 200 /\ verdict[1]
           THEN /\ r_ret' = ReturnCard(parse_card_page(resp.html, r_id, r_name))
                /\ r_pc' = "done"
           ELSE IF r_j + 1 = Considered(r_results)
           THEN r_ret' = NoneMatched(failures) /\ r_pc' = "done"
           ELSE UNCHANGED <<r_ret, r_pc>>
    /\ UNCHANGED <<r_id, r_name, r_net, r_i, r_tried, r_results, v_vars, p_vars, d_vars, m_vars, s_vars, n_vars>>

InitResolver ==
    /\ r_pc = "direct"
    /\ r_id \in ResolverIds
    /\ r_name \in ResolverNames
    /\ r_i = 0
    /\ r_tried = <<>>
    /\ r_failures = <<>>
    /\ r_results = <<>>
    /\ r_j = 0
    /\ r_requests = <<>>
    /\ r_last = Response("none", 0, NoPage)
    /\ r_ret = Pending
    /\ r_net = TRUE
    /\ V_Idle /\ P_Idle /\ D_Idle /\ M_Idle /\ S_Idle /\ N_Idle

NextResolver ==
    \/ TryDirect
    \/ Search
    \/ SkipResult
    \/ ResultWithoutLink
    \/ FetchResult

SpecResolver == InitResolver /\ [][NextResolver]_vars

----------------------------------------------------------------------------
(* Properties of fetch_card_data                                            *)

R_Patterns == get_card_url_patterns(r_name)

R_Kinds(kind) == { k \in 1..Len(r_requests) : r_requests[k].kind = kind }

R_LastKind == IF r_requests = <<>> THEN "none" ELSE r_requests[Len(r_requests)].kind

\* the latest response is an HTTP 200 whose page validate_card_match accepts
R_LastAccepted ==
    /\ r_last.outcome = "ok" /\ r_last.status = 200
    /\ validate_card_match(r_last.html, r_name)[1]

R_Success == r_ret.card_data.some /\ ~r_ret.error_reason.some
R_Failed == ~r_ret.card_data.some /\ r_ret.error_reason.some

\* C1: the direct candidates are fetched in the order get_card_url_patterns
\* returned them; the first one answered by HTTP 200 with a page that
\* validate_card_match accepts ends the task with the record parsed from that
\* page, and nothing is fetched after it.
C1_FirstAcceptedCandidateWins ==
    /\ r_i <= Len(R_Patterns)
    /\ R_Kinds("direct") = 1..r_i
    /\ \A k \in 1..r_i : r_requests[k].target = R_Patterns[k]
    /\ (R_LastKind = "direct" /\ R_LastAccepted)
          => /\ r_pc = "done"
             /\ r_ret = ReturnCard(parse_card_page(r_last.html, r_id, r_name))
             /\ Len(r_requests) = r_i
    /\ (R_LastKind = "direct" /\ ~R_LastAccepted) => ~R_Success

\* the third candidate was the first accepted one and ended the task
C1_Witness ==
    /\ r_pc = "done" /\ R_Success
    /\ r_i = 3 /\ Len(r_requests) = 3
    /\ R_LastAccepted

\* C2: the search request is issued only after every direct candidate was
\* tried without an accepted page, it is issued whenever none was accepted, and
\* a search answering with zero results ends the task in FAILURE.
C2_SearchAfterAllCandidates ==
    /\ \A k \in R_Kinds("search") : k = Len(R_Patterns) + 1 /\ r_i = Len(R_Patterns)
    /\ r_pc = "search" => r_i = Len(R_Patterns)
    /\ (r_pc = "direct" /\ r_requests # <<>>) => r_i < Len(R_Patterns)
    /\ (r_pc \in {"results", "done"} /\ Len(r_requests) = r_i /\ r_i > 0)
          => (r_pc = "done" /\ R_LastAccepted /\ R_Success)
    /\ (R_LastKind = "search" /\ r_last.outcome = "ok" /\ r_last.status = 200
          /\ r_results = <<>>)
          => (r_pc = "done" /\ R_Failed /\ r_ret.error_reason.val.search = "no results")

\* three candidates were rejected or failed, the search returned no result, and
\* the task failed
C2_Witness ==
    /\ r_pc = "done" /\ R_Failed
    /\ r_i = 3 /\ Len(r_requests) = 4 /\ R_LastKind = "search"
    /\ r_last.outcome = "ok" /\ r_last.status = 200 /\ r_results = <<>>

R_CountsBounded ==
    /\ Cardinality(R_Kinds("direct")) <= Len(R_Patterns)
    /\ \A k, m \in R_Kinds("direct") : k # m => r_requests[k].target # r_requests[m].target
    /\ Cardinality(R_Kinds("search")) <= 1
    /\ Cardinality(R_Kinds("result")) <= 5
    /\ Len(r_requests) <= Len(R_Patterns) + 1 + 5

R_ExactlyOneResult ==
    /\ r_pc # "done" => r_ret = Pending
    /\ r_pc = "done" =>
          /\ R_Success \/ R_Failed
          /\ ~(R_Success /\ R_Failed)
          /\ R_Failed => r_ret.error_reason.val.kind
                            \in {"Not found", "Network error", "Search error"}

\* a task that has not returned has its next loop iteration or its search
\* request ahead: the guard of one of the steps holds
R_NotStuck ==
    r_pc # "done" =>
        \/ r_pc = "direct" /\ r_i < Len(R_Patterns) /\ DirectResponses # {}
        \/ r_pc = "search" /\ SearchResponses # {}
        \/ r_pc = "results" /\ r_j < Considered(r_results) /\ DirectResponses # {}

\* requests issued plus search results examined
R_Steps == Len(r_requests) + r_j

\* C3: whatever the fetches answer (200, 404, another status, timeout,
\* connection error, unexpected exception), the task ends after a bounded number
\* of fetches (each direct candidate at most once, one search request, at most
\* 5 result pages) and returns exactly one of (record, no reason) and (no
\* record, a reason). Termination: every step issues a request or passes a
\* search result, their number is bounded, and no unfinished task is stuck.
C3_TerminatesWithOneResult ==
    /\ [](R_CountsBounded /\ R_ExactlyOneResult /\ R_NotStuck)
    /\ [][R_Steps' > R_Steps /\ R_Steps' <= Len(R_Patterns) + 1 + 5 + 5]_vars

\* a task that ran through three candidates, the search and five result pages
\* of six, and failed
C3_Witness ==
    /\ r_pc = "done" /\ R_Failed
    /\ Cardinality(R_Kinds("direct")) = 3
    /\ Cardinality(R_Kinds("result")) = 5
    /\ Len(r_results) = 6
    /\ r_last.outcome = "Exception"

R_Recoverable ==
    \/ r_last.outcome \in {"Timeout", "ConnectionError"}
    \/ r_last.outcome = "ok" /\ r_last.status = 404

\* C4: a 404, a timeout or a network error on a direct candidate does not end
\* the task: the next candidate in order is tried next, and after the last
\* candidate the search is entered.
C4_DirectErrorsAreNotFatal ==
    (R_LastKind = "direct" /\ R_Recoverable) =>
        /\ r_ret = Pending
        /\ r_i < Len(R_Patterns) =>
              /\ r_pc = "direct"
              /\ \A k \in 1..r_i : r_requests[k].target = R_Patterns[k]
        /\ r_i = Len(R_Patterns) => r_pc = "search"

\* the second of three candidates timed out and the third is up next
C4_Witness ==
    /\ R_LastKind = "direct" /\ r_last.outcome = "Timeout"
    /\ r_i = 2 /\ Len(R_Patterns) = 3
    /\ r_pc = "direct"

\* the pre-filter as the specification words it
R_PassesPreFilter(title) ==
    \/ normalize_name(title) = normalize_name(r_name)
    \/ SpecSignificant(r_name) = {}
    \/ 100 * Cardinality(SpecSignificant(r_name) \cap SpecSignificant(title))
          >= 75 * Cardinality(SpecSignificant(r_name))

\* C5: a search-result page is fetched only if the result is among the first 5
\* and its displayed title passes the pre-filter; results are examined in rank
\* order; the first fetched page that validate_card_match accepts ends the
\* task in SUCCESS.
C5_SearchResultsFiltered ==
    /\ \A k \in R_Kinds("result") :
          LET rank == r_requests[k].target[1] IN
          /\ rank <= 5 /\ rank <= Len(r_results) /\ rank <= r_j
          /\ R_PassesPreFilter(r_results[rank].title)
          /\ \A m \in R_Kinds("result") :
                m < k => r_requests[m].target[1] < rank
    /\ (R_LastKind = "result" /\ R_LastAccepted)
          => /\ r_pc = "done"
             /\ r_ret = ReturnCard(parse_card_page(r_last.html, r_id, r_name))
    /\ (R_LastKind = "result" /\ ~R_LastAccepted) => ~R_Success

\* the first result was skipped by the pre-filter, the second was fetched and
\* accepted
C5_Witness ==
    /\ r_pc = "done" /\ R_Success
    /\ Cardinality(R_Kinds("result")) = 1
    /\ R_LastKind = "result" /\ r_requests[Len(r_requests)].target = <<2>>
    /\ ~R_PassesPreFilter(r_results[1].title)

\* C23: every failure reason states the number of direct patterns tried, which
\* is the number of candidates generated, lists at most 3 example patterns,
\* the first 3 in generation order, and, when search results were examined,
\* states the number of search results considered, which is at most 5.
C23_FailureReasonCounts ==
    R_Failed =>
        LET e == r_ret.error_reason.val
            n == Len(R_Patterns)
        IN
        /\ e.tried = n
        /\ Len(e.examples) <= 3
        /\ e.examples = [k \in 1..(IF n < 3 THEN n ELSE 3) |-> LastSegment(R_Patterns[k])]
        /\ e.search = "none matched" => e.n_results = r_j /\ e.n_results <= 5

\* C24: a failure after direct fetches that all ended in a timeout or a
\* connection failure, no search result having been accepted, is of the
\* network-error type; a not-found reason is returned only when some candidate
\* page answered.
C24_UnreachableIsNetworkError ==
    R_Failed /\ r_net => r_ret.error_reason.val.kind = "Network error"

----------------------------------------------------------------------------
(* The crawl driver: main() and fetch_and_save_card                         *)

NumTasks == 3
MinWorkers == 1
MaxWorkers == 50

\* cards_to_fetch: the ids of the batch
Tasks == 1..NumTasks

\* --workers as given on the command line
WorkerArgs == { 0, 1, 2, 60 }

\* workers = max(1, min(50, args.workers))
ClampWorkers(w) ==
    LET capped == IF w < MaxWorkers THEN w ELSE MaxWorkers
    IN IF capped > MinWorkers THEN capped ELSE MinWorkers

\* what a future holds: the (result, success) pair fetch_and_save_card returned,
\* or the exception that left it
Returned(success) == [raised |-> FALSE, success |-> success]
RaisedSystemExit == [raised |-> TRUE, success |-> FALSE]
NotDone == [raised |-> FALSE, success |-> FALSE]

Running == { t \in Tasks : d_task[t] = "running" }

\* a pool thread takes a queued task and runs fetch_and_save_card up to
\* conn = get_db_connection(), which is outside the try: when the connection
\* fails, get_db_connection calls sys.exit(1) and SystemExit leaves the function
WorkerStart(t) ==
    /\ d_task[t] = "queued"
    /\ Cardinality(Running) < d_workers
    /\ \E connected \in BOOLEAN :
        IF connected
        THEN /\ d_task' = [d_task EXCEPT ![t] = "running"]
             /\ UNCHANGED d_future
        ELSE /\ d_task' = [d_task EXCEPT ![t] = "done"]
             /\ d_future' = [d_future EXCEPT ![t] = RaisedSystemExit]
    /\ UNCHANGED <<d_main, d_workers, d_collected, d_completed, d_successful,
                   d_skipped, d_cards, v_vars, p_vars, r_vars, m_vars, s_vars, n_vars>>

\* the rest of fetch_and_save_card: fetch_card_data, save_card_to_db, the
\* except Exception handler and conn.close().
\*   "skipped"   fetch_card_data returned no card
\*   "saved"     the card was upserted and committed
\*   "rollback"  the upsert raised psycopg2.Error and was rolled back
\*   "error"     another exception, caught by `except Exception`
TaskOutcomes == { "skipped", "saved", "rollback", "error" }

WorkerFinish(t) ==
    /\ d_task[t] = "running"
    /\ \E outcome \in TaskOutcomes :
        /\ d_future' = [d_future EXCEPT ![t] = Returned(outcome = "saved")]
        /\ d_cards' = IF outcome = "saved" THEN d_cards \cup {t} ELSE d_cards
    /\ d_task' = [d_task EXCEPT ![t] = "done"]
    /\ UNCHANGED <<d_main, d_workers, d_collected, d_completed, d_successful,
                   d_skipped, v_vars, p_vars, r_vars, m_vars, s_vars, n_vars>>

\* one iteration of `for future in as_completed(...)`: future.result() re-raises
\* what the task raised, otherwise the counters are updated under the lock
Collect(t) ==
    /\ d_main = "collecting"
    /\ d_task[t] = "done"
    /\ t \notin d_collected
    /\ d_collected' = d_collected \cup {t}
    /\ IF d_future[t].raised
       THEN /\ d_main' = "raised"
            /\ UNCHANGED <<d_completed, d_successful, d_skipped>>
       ELSE /\ d_completed' = d_completed + 1
            /\ d_successful' = IF d_future[t].success THEN d_successful + 1
                               ELSE d_successful
            /\ d_skipped' = IF d_future[t].success THEN d_skipped ELSE d_skipped + 1
            /\ d_main' = IF d_collected' = Tasks THEN "finished" ELSE "collecting"
    /\ UNCHANGED <<d_workers, d_task, d_future, d_cards, v_vars, p_vars, r_vars, m_vars, s_vars, n_vars>>

InitDriver ==
    /\ d_main = "collecting"
    /\ d_workers \in { ClampWorkers(w) : w \in WorkerArgs }
    /\ d_task = [t \in Tasks |-> "queued"]
    /\ d_future = [t \in Tasks |-> NotDone]
    /\ d_collected = {}
    /\ d_completed = 0
    /\ d_successful = 0
    /\ d_skipped = 0
    /\ d_cards = {}
    /\ V_Idle /\ P_Idle /\ R_Idle /\ M_Idle /\ S_Idle /\ N_Idle

NextDriver ==
    \E t \in Tasks : WorkerStart(t) \/ WorkerFinish(t) \/ Collect(t)

SpecDriver == InitDriver /\ [][NextDriver]_vars

----------------------------------------------------------------------------
(* Properties of the crawl driver                                           *)

\* the driver has left the collection loop, normally or by an exception
D_Ended == d_main \in {"finished", "raised"}

\* C6: an exception in one task, a failure to open the task's database
\* connection included, never aborts the batch: the driver does not raise, and
\* when it ends every task was collected and counted, the failed ones as skipped.
C6_TaskFailureNeverAbortsBatch ==
    /\ d_main # "raised"
    /\ d_main = "finished" =>
          /\ d_collected = Tasks
          /\ d_completed = NumTasks
          /\ d_skipped = Cardinality({ t \in Tasks : ~d_future[t].success })

\* C7: the driver ends with completed = N and successful + skipped = N, the sum
\* equals completed after every completion, and successful is the number of
\* tasks whose record was committed to the cards table.
C7_CountersAccountForEveryTask ==
    /\ d_successful + d_skipped = d_completed
    /\ D_Ended =>
          /\ d_completed = NumTasks
          /\ d_successful + d_skipped = NumTasks
          /\ (\A t \in Tasks : d_task[t] = "done") => d_successful = Cardinality(d_cards)

----------------------------------------------------------------------------
(* run_migrations.py: file names, versions and the sorted list              *)

sSql == <<".","s","q","l">>
sV == <<"V">>
sSep == <<"_","_">>

EndsWith(s, suffix) ==
    Len(suffix) <= Len(s) /\ SubSeq(s, Len(s) - Len(suffix) + 1, Len(s)) = suffix

\* name.split("__", 1): the position of the first "__", 0 when there is none
FirstSep(name) ==
    LET hits == { i \in 1..(Len(name) - 1) : SubSeq(name, i, i + 1) = sSep }
    IN IF hits = {} THEN 0 ELSE CHOOSE i \in hits : \A j \in hits : i <= j

\* int(version_str) succeeds: a non-empty string of digits (the file names of
\* the model carry no sign, blank or digit separator)
IsInt(str) == str # <<>> /\ \A i \in 1..Len(str) : str[i] \in Digits

NoMigration == [valid |-> FALSE, version |-> 0, description |-> <<>>, filename |-> <<>>]

\* parse_migration_filename: V{version}__{description}.sql
parse_migration_filename(filename) ==
    IF ~EndsWith(filename, sSql) THEN NoMigration
    ELSE LET name == SubSeq(filename, 1, Len(filename) - 4) IN
         IF ~StartsWith(name, sV) THEN NoMigration
         ELSE IF FirstSep(name) = 0 THEN NoMigration
         ELSE LET version_str == SubSeq(name, 2, FirstSep(name) - 1) IN
              IF ~IsInt(version_str) THEN NoMigration
              ELSE [ valid |-> TRUE,
                     version |-> DigitsToInt(version_str),
                     description |-> SubSeq(name, FirstSep(name) + 2, Len(name)),
                     filename |-> filename ]

\* x placed behind every element whose key is not greater: list.sort is stable
RECURSIVE InsertByVersion(_, _)
InsertByVersion_GlobOrder(sorted, x) == sorted \o <<x>>
InsertByVersion(sorted, x) ==
    IF sorted = <<>> THEN <<x>>
    ELSE IF x.version < Head(sorted).version THEN <<x>> \o sorted
    ELSE <<Head(sorted)>> \o InsertByVersion(Tail(sorted), x)

\* migrations.sort(key=lambda x: x["version"])
RECURSIVE SortByVersion(_)
SortByVersion(list) ==
    IF list = <<>> THEN <<>>
    ELSE InsertByVersion(SortByVersion(SubSeq(list, 1, Len(list) - 1)), list[Len(list)])

\* the files of the directory that parse, in glob order
RECURSIVE ParsedFiles(_)
ParsedFiles(dir) ==
    IF dir = <<>> THEN <<>>
    ELSE LET info == parse_migration_filename(Head(dir)) IN
         (IF info.valid THEN <<info>> ELSE <<>>) \o ParsedFiles(Tail(dir))

get_migration_files(dir) == SortByVersion(ParsedFiles(dir))

----------------------------------------------------------------------------
(* run_migrations.py: the run                                               *)

MaxFiles == 3
MaxRuns == 2

fV1a == <<"V","1","_","_","a",".","s","q","l">>
fV2b == <<"V","2","_","_","b",".","s","q","l">>
fV10c == <<"V","1","0","_","_","c",".","s","q","l">>
fV01d == <<"V","0","1","_","_","d",".","s","q","l">>
fVxe == <<"V","x","_","_","e",".","s","q","l">>
fV3 == <<"V","3","_","f",".","s","q","l">>

\* files glob("V*.sql") can find: three versions, a second file of version 1
\* and two names that do not parse
MigrationFiles == { fV1a, fV2b, fV10c, fV01d, fVxe, fV3 }

\* a directory listing: distinct files in any order
Directories ==
    { d \in UNION { [1..n -> MigrationFiles] : n \in 0..MaxFiles } :
        \A i, j \in 1..Len(d) : d[i] = d[j] => i = j }

\* a row of flyway_schema_history
LedgerRow(rank, version) ==
    [installed_rank |-> rank, version |-> IntToStr(version), success |-> TRUE]

\* SELECT COALESCE(MAX(installed_rank), 0)
MaxRank_Zero(rows) == 0
MaxRank(rows) ==
    IF rows = <<>> THEN 0
    ELSE CHOOSE r \in { rows[i].installed_rank : i \in 1..Len(rows) } :
            \A i \in 1..Len(rows) : rows[i].installed_rank <= r

\* check_migration_applied: a row of this version with success = true, as the
\* connection sees the table (committed rows and those of its transaction)
check_migration_applied_Never(rows, version) == FALSE
check_migration_applied(rows, version) ==
    \E i \in 1..Len(rows) : rows[i].version = IntToStr(version) /\ rows[i].success

\* sys.exit(code) or an uncaught exception; `finally: conn.close()` discards
\* the open transaction
Exit(code) ==
    /\ m_pc' = "exit"
    /\ m_exit' = code
    /\ m_tx' = NoTx

\* the loop moves to the next migration, or the run ends normally
Advance_PastFailure(failed) ==
    IF m_k = Len(m_migrations)
    THEN m_pc' = "exit" /\ m_exit' = (IF failed THEN 1 ELSE 0) /\ UNCHANGED m_k
    ELSE m_pc' = "check" /\ m_k' = m_k + 1 /\ UNCHANGED m_exit
Advance(failed) ==
    IF failed THEN m_pc' = "exit" /\ m_exit' = 1 /\ UNCHANGED m_k
    ELSE IF m_k = Len(m_migrations)
    THEN m_pc' = "exit" /\ m_exit' = 0 /\ UNCHANGED m_k
    ELSE m_pc' = "check" /\ m_k' = m_k + 1 /\ UNCHANGED m_exit

\* run_migration returns True before its try block: the version is already
\* applied ([SKIP]), or this is a dry run ([DRY RUN] Would execute)
ReturnsEarly_OnlyWhenApplied(applied, dry_run) == applied
ReturnsEarly(applied, dry_run) == applied \/ dry_run

\* main up to the loop: directory check, connection, sorted migration list
StartRun ==
    /\ m_pc = "start"
    /\ \E start \in {"ok", "no directory", "no connection"} :
        IF start # "ok"
        THEN Exit(1) /\ UNCHANGED <<m_migrations, m_k>>
        ELSE /\ m_migrations' = get_migration_files(m_dir)
             /\ m_tx' = NoTx
             /\ IF m_migrations' = <<>>
                THEN m_pc' = "exit" /\ m_exit' = 0 /\ UNCHANGED m_k
                ELSE m_pc' = "check" /\ m_k' = 1 /\ UNCHANGED m_exit
    /\ UNCHANGED <<m_dry, m_dir, m_count, m_schema, m_ledger, m_run, m_executed,
                   m_ledger0, v_vars, p_vars, r_vars, d_vars, s_vars, n_vars>>

\* run_migration up to the try: already applied, dry run, or go on to execute;
\* a failing query is not caught and ends the run
CheckApplied ==
    /\ m_pc = "check"
    /\ \E query_ok \in BOOLEAN :
        IF ~query_ok
        THEN Exit(1) /\ UNCHANGED <<m_k, m_count>>
        ELSE IF ReturnsEarly(check_migration_applied(m_ledger \o m_tx.rows,
                                                     m_migrations[m_k].version), m_dry)
        THEN /\ m_count' = m_count + 1
             /\ Advance(FALSE)
             /\ UNCHANGED m_tx
        ELSE /\ m_pc' = "execute"
             /\ UNCHANGED <<m_k, m_count, m_exit, m_tx>>
    /\ UNCHANGED <<m_dry, m_dir, m_migrations, m_schema, m_ledger, m_run, m_executed,
                   m_ledger0, v_vars, p_vars, r_vars, d_vars, s_vars, n_vars>>

\* open(file_path).read() and cur.execute(sql_content)
Execute ==
    /\ m_pc = "execute"
    /\ \E outcome \in {"ok", "read error", "sql error"} :
        /\ m_executed' = IF outcome = "read error" THEN m_executed
                         ELSE Append(m_executed, m_migrations[m_k])
        /\ IF outcome = "ok"
           THEN /\ m_tx' = [m_tx EXCEPT !.schema = @ \cup {m_migrations[m_k].filename}]
                /\ m_pc' = "record"
                /\ UNCHANGED <<m_k, m_exit>>
           ELSE \* except Exception: conn.rollback(); return False
                /\ m_tx' = NoTx
                /\ Advance(TRUE)
    /\ UNCHANGED <<m_dry, m_dir, m_migrations, m_count, m_schema, m_ledger, m_run,
                   m_ledger0, v_vars, p_vars, r_vars, d_vars, s_vars, n_vars>>

\* record_migration: the row with the next rank, in the same transaction
Record ==
    /\ m_pc = "record"
    /\ \E ok \in BOOLEAN :
        IF ok
        THEN /\ m_tx' = [m_tx EXCEPT !.rows =
                            Append(@, LedgerRow(MaxRank(m_ledger \o m_tx.rows) + 1,
                                                m_migrations[m_k].version))]
             /\ m_pc' = "commit"
             /\ UNCHANGED <<m_k, m_exit>>
        ELSE /\ m_tx' = NoTx
             /\ Advance(TRUE)
    /\ UNCHANGED <<m_dry, m_dir, m_migrations, m_count, m_schema, m_ledger, m_run,
                   m_executed, m_ledger0, v_vars, p_vars, r_vars, d_vars, s_vars, n_vars>>

\* what conn.commit() makes durable
Committed_EffectsOnly(tx) == [schema |-> tx.schema, rows |-> <<>>]
Committed(tx) == tx

\* conn.commit(), return True, success_count += 1
Commit ==
    /\ m_pc = "commit"
    /\ \E ok \in BOOLEAN :
        IF ok
        THEN /\ m_schema' = m_schema \cup Committed(m_tx).schema
             /\ m_ledger' = m_ledger \o Committed(m_tx).rows
             /\ m_tx' = NoTx
             /\ m_count' = m_count + 1
             /\ Advance(FALSE)
        ELSE /\ m_tx' = NoTx
             /\ Advance(TRUE)
             /\ UNCHANGED <<m_schema, m_ledger, m_count>>
    /\ UNCHANGED <<m_dry, m_dir, m_migrations, m_run, m_executed, m_ledger0,
                   v_vars, p_vars, r_vars, d_vars, s_vars, n_vars>>

\* the script is started again on the same directory and database
Rerun ==
    /\ m_pc = "exit"
    /\ m_run < MaxRuns
    /\ m_run' = m_run + 1
    /\ m_dry' \in BOOLEAN
    /\ m_pc' = "start"
    /\ m_exit' = -1
    /\ m_migrations' = <<>>
    /\ m_k' = 0
    /\ m_count' = 0
    /\ m_executed' = <<>>
    /\ m_ledger0' = m_ledger
    /\ UNCHANGED <<m_dir, m_schema, m_ledger, m_tx, v_vars, p_vars, r_vars, d_vars, s_vars, n_vars>>

InitMigrate ==
    /\ m_pc = "start"
    /\ m_dry \in BOOLEAN
    /\ m_dir \in Directories
    /\ m_migrations = <<>>
    /\ m_k = 0
    /\ m_count = 0
    /\ m_exit = -1
    /\ m_schema = {}
    /\ m_ledger = <<>>
    /\ m_tx = NoTx
    /\ m_run = 1
    /\ m_executed = <<>>
    /\ m_ledger0 = <<>>
    /\ V_Idle /\ P_Idle /\ R_Idle /\ D_Idle /\ S_Idle /\ N_Idle

NextMigrate == StartRun \/ CheckApplied \/ Execute \/ Record \/ Commit \/ Rerun

SpecMigrate == InitMigrate /\ [][NextMigrate]_vars

----------------------------------------------------------------------------
(* Properties of the migration run                                          *)

\* the rows hold a success record of the version
M_HasRecord(rows, version) ==
    \E i \in 1..Len(rows) : rows[i].success /\ rows[i].version = IntToStr(version)

\* the migration the loop is at
M_Current == m_migrations[m_k]

\* a step in which run_migration fails: the transaction of the migration is
\* dropped without having been committed
M_FailingStep ==
    /\ m_pc \in {"execute", "record", "commit"}
    /\ m_tx' = NoTx
    /\ m_ledger' = m_ledger

\* the rows this run added to the ledger
M_RowsOfRun == SubSeq(m_ledger, Len(m_ledger0) + 1, Len(m_ledger))

\* the run ended at migration m_k with exit code 1
M_StoppedAtMigration == m_pc = "exit" /\ m_exit = 1 /\ m_k >= 1

\* C15: when a migration fails the run stops at once with exit code 1: no
\* migration of a higher version is executed or recorded in that run.
C15_FailureStopsRun ==
    /\ [][M_FailingStep => m_pc' = "exit" /\ m_exit' = 1 /\ m_k' = m_k]_vars
    /\ [](M_StoppedAtMigration =>
            /\ \A i \in 1..Len(m_executed) : m_executed[i].version <= M_Current.version
            /\ \A i \in 1..Len(M_RowsOfRun) :
                  \E j \in 1..m_k : M_RowsOfRun[i].version = IntToStr(m_migrations[j].version))
    /\ [][m_pc = "exit" /\ m_run' = m_run => UNCHANGED vars]_vars

C15_Witness ==
    /\ M_StoppedAtMigration
    /\ m_k = 2 /\ Len(m_migrations) = 3
    /\ Len(m_executed) = 2 /\ m_executed[2] = M_Current
    /\ Len(M_RowsOfRun) = 1
    /\ m_run = 1

\* versions with a success record, and versions whose script effects are
\* committed
M_RecordedVersions ==
    { m_ledger[i].version : i \in { j \in 1..Len(m_ledger) : m_ledger[j].success } }
M_EffectiveVersions ==
    { IntToStr(parse_migration_filename(f).version) : f \in m_schema }

\* C16: a version has a success record exactly when its script's effects are
\* committed, in every state; a failing script changes neither the schema nor
\* the ledger, and the rows committed earlier stay.
C16_LedgerMatchesSchema ==
    /\ [](/\ M_RecordedVersions = M_EffectiveVersions
          /\ Len(m_ledger) = Cardinality(m_schema))
    /\ [][M_FailingStep => m_schema' = m_schema /\ m_ledger' = m_ledger]_vars
    /\ [][/\ m_schema \subseteq m_schema'
          /\ Len(m_ledger) <= Len(m_ledger')
          /\ SubSeq(m_ledger', 1, Len(m_ledger)) = m_ledger]_vars

C16_Witness ==
    /\ M_StoppedAtMigration
    /\ m_k = 2
    /\ Len(m_executed) = 2
    /\ Len(m_ledger) = 1 /\ m_ledger[1].version = IntToStr(m_migrations[1].version)
    /\ m_schema = {m_migrations[1].filename}

\* every migration file of the directory has a success record in the rows
M_AllRecorded(rows) ==
    \A f \in Range(m_dir) :
        parse_migration_filename(f).valid =>
            M_HasRecord(rows, parse_migration_filename(f).version)

\* C17: for a version with a success record run_migration executes no script,
\* adds no record and reports success, and the run goes on; a run that starts
\* with every migration recorded, as a run that applied them all leaves it,
\* executes nothing and leaves the ledger as it was.
C17_AppliedVersionsAreSkipped ==
    /\ [][m_pc = "check" /\ M_HasRecord(m_ledger, M_Current.version) =>
            /\ m_executed' = m_executed /\ m_ledger' = m_ledger
            /\ m_schema' = m_schema /\ m_tx' = m_tx
            /\ \/ m_pc' = "exit" /\ m_exit' = 1 /\ m_count' = m_count
               \/ /\ m_count' = m_count + 1
                  /\ IF m_k = Len(m_migrations) THEN m_pc' = "exit" /\ m_exit' = 0
                     ELSE m_pc' = "check" /\ m_k' = m_k + 1]_vars
    /\ [](m_run = 1 /\ m_pc = "exit" /\ m_exit = 0 /\ ~m_dry => M_AllRecorded(m_ledger))
    /\ [](M_AllRecorded(m_ledger0) => m_executed = <<>> /\ m_ledger = m_ledger0)

C17_Witness ==
    /\ m_run = 2 /\ m_pc = "exit" /\ m_exit = 0 /\ ~m_dry
    /\ Len(m_migrations) = 3 /\ m_count = 3
    /\ Len(m_ledger0) = 3
    /\ m_executed = <<>> /\ m_ledger = m_ledger0

\* C18: within one run the scripts are executed in strictly ascending order of
\* the numeric version, whatever the order of the directory listing: when a
\* script is executed, every file of a lower version was executed before it in
\* this run or has a success record.
C18_AscendingVersionOrder ==
    /\ \A i, j \in 1..Len(m_executed) :
          i < j => m_executed[i].version < m_executed[j].version
    /\ \A i \in 1..Len(m_executed) : \A f \in Range(m_dir) :
          LET info == parse_migration_filename(f) IN
          info.valid /\ info.version < m_executed[i].version =>
              \/ \E j \in 1..(i - 1) : m_executed[j].filename = f
              \/ M_HasRecord(m_ledger, info.version)

C18_Witness ==
    /\ m_dir = <<fV10c, fV2b, fV1a>>
    /\ Len(m_executed) = 3
    /\ m_executed[1].version = 1 /\ m_executed[2].version = 2
    /\ m_executed[3].version = 10
    /\ m_run = 1

\* C29: a step of a dry run changes neither the schema nor the ledger, leaves
\* no script executed and nothing in the transaction, never enters the try
\* block of run_migration, and counts every migration it looks at as a success.
C29_DryRunChangesNothing ==
    [][ m_dry /\ m_run' = m_run =>
          /\ m_schema' = m_schema /\ m_ledger' = m_ledger
          /\ m_ledger' = m_ledger0
          /\ m_executed' = <<>>
          /\ m_tx' = NoTx
          /\ m_pc' \notin {"execute", "record", "commit"}
          /\ m_pc = "check" /\ (m_pc' = "check" \/ m_exit' = 0) =>
                m_count' = m_count + 1
          /\ m_pc' = "exit" /\ m_exit' = 0 => m_count' = Len(m_migrations') ]_vars

C29_Witness ==
    /\ m_dry /\ m_run = 2
    /\ m_pc = "exit" /\ m_exit = 0
    /\ Len(m_migrations) = 3 /\ m_count = 3
    /\ Len(m_ledger0) = 1 /\ m_ledger = m_ledger0
    /\ Cardinality(m_schema) = 1
    /\ m_executed = <<>>

\* the ledger's ranks are 1, 2, ... in the order of application, no version
\* has two success records, and no two files of one version took effect
M_LedgerInOrder(ledger, schema) ==
    /\ \A i \in 1..Len(ledger) : ledger[i].installed_rank = i
    /\ \A i, j \in 1..Len(ledger) :
          ledger[i].success /\ ledger[j].success
          /\ ledger[i].version = ledger[j].version => i = j
    /\ \A f, g \in schema :
          parse_migration_filename(f).version = parse_migration_filename(g).version
             => f = g

\* C30: over any sequence of runs, failed ones included, the ledger holds at
\* most one success record per version with ranks 1, 2, ... in the order of
\* application, and no script is executed for a version that has a success
\* record: of two files of one version only the first executed is applied.
C30_OneRecordPerVersion ==
    [][ /\ M_LedgerInOrder(m_ledger', m_schema')
        /\ Len(m_executed') > Len(m_executed) =>
              ~M_HasRecord(m_ledger, m_executed'[Len(m_executed')].version) ]_vars

C30_Witness ==
    /\ m_run = 2 /\ ~m_dry
    /\ m_pc = "exit" /\ m_exit = 0
    /\ m_dir = <<fV01d, fV2b, fV1a>>
    /\ Len(m_ledger0) = 1 /\ Len(m_ledger) = 2
    /\ m_schema = {fV01d, fV2b}
    /\ Len(m_executed) = 1 /\ m_executed[1].filename = fV2b
    /\ m_count = 3

----------------------------------------------------------------------------
(* check_db.py and setup.py                                                 *)

MaxCards == 2

\* how a database call can end
CallOutcomes == { "ok", "OperationalError", "Error" }

\* what the probe can meet: the outcome of psycopg2.connect, of the query for
\* the cards table and of the COUNT query, whether the table is there, and the
\* number of its rows
Situations ==
    [ connect : CallOutcomes, exists_query : CallOutcomes, table : BOOLEAN,
      count_query : CallOutcomes, rows : 0..MaxCards ]

\* the handlers of check_database: sys.exit(3) for psycopg2.OperationalError,
\* sys.exit(4) for any other exception
ExitFor_AlwaysOther(outcome) == 4
ExitFor(outcome) == IF outcome = "OperationalError" THEN 3 ELSE 4

\* check_database, and sys.exit(status) of the script: the exit code
check_database(db) ==
    IF db.connect # "ok" THEN ExitFor(db.connect)
    ELSE IF db.exists_query # "ok" THEN ExitFor(db.exists_query)
    ELSE IF ~db.table THEN 0
    ELSE IF db.count_query # "ok" THEN ExitFor(db.count_query)
    ELSE IF db.rows = 0 THEN 1
    ELSE 2

\* return codes of a probe process that did not run check_database to its end
\* (killed by a signal, interpreter not started)
AbnormalCodes == { -9, 5, 127 }

\* the if / elif chain of main on db_state
Dispatch_MigrateUnlessPopulated(db_state) ==
    IF db_state = 2 THEN "skip" ELSE "migrate"
Dispatch(db_state) ==
    IF db_state = 0 THEN "migrate"
    ELSE IF db_state = 1 THEN "seed"
    ELSE IF db_state = 2 THEN "skip"
    ELSE "error"

Child(script, returncode) == [script |-> script, returncode |-> returncode]

\* subprocess.run of check_db.py, db_state = result.returncode, and the branch
\* main takes on it
RunProbe ==
    /\ s_pc = "probe"
    /\ \E completed \in BOOLEAN : \E code \in {check_database(s_db)} \cup AbnormalCodes :
        /\ completed <=> code = check_database(s_db)
        /\ s_probed' = completed
        /\ s_state' = code
        /\ s_ran' = Append(s_ran, Child("check_db.py", code))
        /\ s_pc' = IF Dispatch(code) \in {"migrate", "seed"} THEN Dispatch(code) ELSE "exit"
        /\ s_exit' = IF Dispatch(code) = "skip" THEN 0
                     ELSE IF Dispatch(code) = "error" THEN 1
                     ELSE s_exit
    /\ UNCHANGED <<s_db, v_vars, p_vars, r_vars, d_vars, m_vars, n_vars>>

\* subprocess.run(run_migrations.py, check=True): a non-zero return code
\* raises CalledProcessError, which nothing catches
RunMigrations ==
    /\ s_pc = "migrate"
    /\ \E returncode \in {0, 1} :
        /\ s_ran' = Append(s_ran, Child("run_migrations.py", returncode))
        /\ IF returncode = 0
           THEN s_pc' = "seed" /\ UNCHANGED s_exit
           ELSE s_pc' = "exit" /\ s_exit' = 1
    /\ UNCHANGED <<s_db, s_probed, s_state, v_vars, p_vars, r_vars, d_vars, m_vars, n_vars>>

\* subprocess.run(crawl_cards.py --start .. --end .. --workers 10, check=True)
RunCrawler ==
    /\ s_pc = "seed"
    /\ \E returncode \in {0, 1} :
        /\ s_ran' = Append(s_ran, Child("crawl_cards.py", returncode))
        /\ s_pc' = "exit"
        /\ s_exit' = IF returncode = 0 THEN 0 ELSE 1
    /\ UNCHANGED <<s_db, s_probed, s_state, v_vars, p_vars, r_vars, d_vars, m_vars, n_vars>>

InitSetup ==
    /\ s_pc = "probe"
    /\ s_db \in Situations
    /\ s_probed = FALSE
    /\ s_state = -1
    /\ s_ran = <<>>
    /\ s_exit = -1
    /\ V_Idle /\ P_Idle /\ R_Idle /\ D_Idle /\ M_Idle /\ N_Idle

NextSetup == RunProbe \/ RunMigrations \/ RunCrawler

SpecSetup == InitSetup /\ [][NextSetup]_vars

----------------------------------------------------------------------------
(* Properties of the probe and the setup wrapper                            *)

\* a call of the probe failed, and with which outcome
S_Failure ==
    IF s_db.connect # "ok" THEN s_db.connect
    ELSE IF s_db.exists_query # "ok" THEN s_db.exists_query
    ELSE IF s_db.table /\ s_db.count_query # "ok" THEN s_db.count_query
    ELSE "none"

\* C19: check_database yields one status for every database situation: 0 when
\* the cards table is absent, 1 when it has no rows, 2 when it has rows, exit
\* code 3 on an operational (connection) failure and 4 on any other failure.
C19_ProbeStatus ==
    s_probed =>
        /\ s_state \in 0..4
        /\ s_state = 0 <=> S_Failure = "none" /\ ~s_db.table
        /\ s_state = 1 <=> S_Failure = "none" /\ s_db.table /\ s_db.rows = 0
        /\ s_state = 2 <=> S_Failure = "none" /\ s_db.table /\ s_db.rows >= 1
        /\ s_state = 3 <=> S_Failure = "OperationalError"
        /\ s_state = 4 <=> S_Failure = "Error"

C19_Witness ==
    /\ s_probed
    /\ s_db.connect = "OperationalError"
    /\ s_db.table /\ s_db.rows = 2
    /\ s_state = 3
    /\ s_pc = "exit" /\ s_exit = 1

S_Ran(script) == { i \in 1..Len(s_ran) : s_ran[i].script = script }

\* C20: the wrapper runs the migration runner only for status 0, the crawler
\* only for status 0 or 1, for status 0 only after the migration runner
\* finished successfully, neither for status 2, and for every other status it
\* exits with code 1 without running either.
C20_WrapperDispatch ==
    s_pc # "probe" =>
        /\ S_Ran("run_migrations.py") # {} => s_state = 0
        /\ S_Ran("crawl_cards.py") # {} => s_state \in {0, 1}
        /\ s_state = 0 =>
              \A i \in S_Ran("crawl_cards.py") :
                  \E j \in S_Ran("run_migrations.py") : j < i /\ s_ran[j].returncode = 0
        /\ s_state = 2 =>
              /\ S_Ran("run_migrations.py") = {} /\ S_Ran("crawl_cards.py") = {}
              /\ s_pc = "exit" /\ s_exit = 0
        /\ s_state \notin {0, 1, 2} =>
              /\ S_Ran("run_migrations.py") = {} /\ S_Ran("crawl_cards.py") = {}
              /\ s_pc = "exit" /\ s_exit = 1

C20_Witness ==
    /\ s_pc = "exit" /\ s_exit = 0
    /\ s_state = 0
    /\ s_ran = << Child("check_db.py", 0), Child("run_migrations.py", 0),
                  Child("crawl_cards.py", 0) >>

----------------------------------------------------------------------------
(* The cards table: save_card_to_db and db_manager.seed_cards               *)

NumSavers == 2
MaxSaves == 3
NumSeedRows == 3

\* the columns the INSERT names
CardFields ==
    { "id", "name", "description", "image", "type", "attribute", "race", "level",
      "attack_points", "defense_points", "cost", "rarity" }

\* the columns of ON CONFLICT (id) DO UPDATE SET ... = EXCLUDED. ...
UpdatedFields_WithoutRarity ==
    { "name", "description", "image", "type", "attribute", "race", "level",
      "attack_points", "defense_points", "cost" }
UpdatedFields ==
    { "name", "description", "image", "type", "attribute", "race", "level",
      "attack_points", "defense_points", "cost", "rarity" }

\* a card record: the id, and content number v in every other field
CardRecord(id, v) == [f \in CardFields |-> IF f = "id" THEN id ELSE <<f, v>>]

SaverIds == {1, 2}
CardRecords == { CardRecord(id, v) : id \in SaverIds, v \in {1, 2} }

\* INSERT ... ON CONFLICT (id) DO UPDATE SET ... on the rows of the table
Upsert(rows, r) ==
    LET hit == { x \in rows : x["id"] = r["id"] } IN
    IF hit = {} THEN rows \cup {r}
    ELSE (rows \ hit)
         \cup { [f \in CardFields |-> IF f \in UpdatedFields THEN r[f] ELSE x[f]] : x \in hit }

RECURSIVE UpsertAll(_, _)
UpsertAll(rows, records) ==
    IF records = <<>> THEN rows
    ELSE UpsertAll(Upsert(rows, Head(records)), Tail(records))

Savers == 1..NumSavers

IdleSaver == [pc |-> "idle", rec |-> CardRecord(0, 0), returned |-> "none"]

\* the ids whose row is locked by a statement of an open transaction
LockedIds == { t_w[w].rec["id"] : w \in { x \in Savers : t_w[x].pc = "executed" } }

\* save_card_to_db up to cur.execute: the statement waits while another
\* transaction holds the row; psycopg2.Error -> conn.rollback(), return False
SaveExecute(w) ==
    /\ t_mode = "crawl"
    /\ t_w[w].pc = "idle"
    /\ t_saves < MaxSaves
    /\ t_saves' = t_saves + 1
    /\ \E r \in CardRecords, ok \in BOOLEAN :
        IF ok
        THEN /\ r["id"] \notin LockedIds
             /\ t_w' = [t_w EXCEPT ![w] = [pc |-> "executed", rec |-> r, returned |-> "none"]]
        ELSE t_w' = [t_w EXCEPT ![w] = [pc |-> "idle", rec |-> r, returned |-> "False"]]
    /\ UNCHANGED <<t_mode, t_cards, t_last, t_seed,
                   v_vars, p_vars, r_vars, d_vars, m_vars, s_vars, f_vars, g_vars>>

\* conn.commit() and return True, or psycopg2.Error -> conn.rollback(), return False
SaveCommit(w) ==
    /\ t_mode = "crawl"
    /\ t_w[w].pc = "executed"
    /\ \E ok \in BOOLEAN :
        IF ok
        THEN /\ t_cards' = Upsert(t_cards, t_w[w].rec)
             /\ t_last' = { x \in t_last : x["id"] # t_w[w].rec["id"] } \cup {t_w[w].rec}
             /\ t_w' = [t_w EXCEPT ![w].pc = "idle", ![w].returned = "True"]
        ELSE /\ t_w' = [t_w EXCEPT ![w].pc = "idle", ![w].returned = "False"]
             /\ UNCHANGED <<t_cards, t_last>>
    /\ UNCHANGED <<t_mode, t_saves, t_seed,
                   v_vars, p_vars, r_vars, d_vars, m_vars, s_vars, f_vars, g_vars>>

\* CARDS_DATA, with content number 2
CARDS_DATA == [i \in 1..NumSeedRows |-> CardRecord(i, 2)]

RECURSIVE SelectRange(_, _, _)
SelectRange(cards, start_id, end_id) ==
    IF cards = <<>> THEN <<>>
    ELSE LET card == Head(cards)
             rest == SelectRange(Tail(cards), start_id, end_id)
         IN IF (~start_id.some \/ card["id"] >= start_id.val)
               /\ (~end_id.some \/ card["id"] <= end_id.val)
            THEN <<card>> \o rest ELSE rest

\* cards_to_seed
CardsToSeed(start_id, end_id) ==
    IF start_id.some \/ end_id.some THEN SelectRange(CARDS_DATA, start_id, end_id)
    ELSE CARDS_DATA

SeedBounds == {NoneInt} \cup { Some(i) : i \in 1..(NumSeedRows + 1) }

\* seed_cards up to the loop; the with-block of an autocommit connection is a
\* transaction or not, depending on the psycopg2 release
SeedStart ==
    /\ t_mode = "seed"
    /\ t_seed.pc = "start"
    /\ \E start_id \in SeedBounds, end_id \in SeedBounds, block \in BOOLEAN :
        LET cards_to_seed == CardsToSeed(start_id, end_id) IN
        t_seed' = [t_seed EXCEPT !.pc = IF cards_to_seed = <<>> THEN "returned" ELSE "loop",
                                 !.cards = cards_to_seed,
                                 !.k = 1,
                                 !.block = block]
    /\ UNCHANGED <<t_mode, t_cards, t_last, t_w, t_saves,
                   v_vars, p_vars, r_vars, d_vars, m_vars, s_vars, f_vars, g_vars>>

\* one iteration of `for card in cards_to_seed`: the statement succeeds, or it
\* raises and the exception leaves the with-block and seed_cards
SeedRow ==
    /\ t_mode = "seed"
    /\ t_seed.pc = "loop"
    /\ \E ok \in BOOLEAN :
        LET card == t_seed.cards[t_seed.k]
            last == t_seed.k = Len(t_seed.cards)
            executed == Append(t_seed.pending, card)
        IN
        IF ok
        THEN /\ t_seed' = [t_seed EXCEPT !.k = @ + 1,
                                         !.pc = IF last THEN "returned" ELSE "loop",
                                         !.pending = IF t_seed.block /\ ~last
                                                     THEN executed ELSE <<>>]
             /\ t_cards' = IF t_seed.block
                           THEN (IF last THEN UpsertAll(t_cards, executed) ELSE t_cards)
                           ELSE Upsert(t_cards, card)
        ELSE /\ t_seed' = [t_seed EXCEPT !.pc = "raised",
                                         !.pending = <<>>,
                                         !.failed = Append(@, card["id"])]
             /\ UNCHANGED t_cards
    /\ UNCHANGED <<t_mode, t_last, t_w, t_saves,
                   v_vars, p_vars, r_vars, d_vars, m_vars, s_vars, f_vars, g_vars>>

InitCards ==
    /\ t_mode \in {"crawl", "seed"}
    /\ t_cards \in { {}, {CardRecord(1, 0)} }
    /\ t_last = t_cards
    /\ t_w = [w \in Savers |-> IdleSaver]
    /\ t_saves = 0
    /\ t_seed = [pc |-> "start", cards |-> <<>>, k |-> 0, block |-> FALSE,
                 pending |-> <<>>, failed |-> <<>>]
    /\ F_Idle /\ G_Idle
    /\ V_Idle /\ P_Idle /\ R_Idle /\ D_Idle /\ M_Idle /\ S_Idle

NextCards ==
    \/ \E w \in Savers : SaveExecute(w) \/ SaveCommit(w)
    \/ SeedStart
    \/ SeedRow

SpecCards == InitCards /\ [][NextCards]_vars

----------------------------------------------------------------------------
(* Properties of the cards table                                            *)

T_RowsOf(rows, id) == { x \in rows : x["id"] = id }
T_RowsBut(rows, id) == { x \in rows : x["id"] # id }

\* C25: when save_card_to_db(r) succeeds the table has exactly one row with
\* r's id, equal to r in every field, and the rows of the other ids are as
\* they were; so under every interleaving of workers each id's row is the
\* record of the last successful save of that id.
C25_UpsertKeepsLastCommitted ==
    [][ /\ \A w \in Savers :
              t_w[w].pc = "executed" /\ t_w'[w].returned = "True" =>
                  LET r == t_w[w].rec IN
                  /\ T_RowsOf(t_cards', r["id"]) = {r}
                  /\ T_RowsBut(t_cards', r["id"]) = T_RowsBut(t_cards, r["id"])
        /\ t_mode = "crawl" => t_cards' = t_last' ]_vars

C25_Witness ==
    /\ t_mode = "crawl"
    /\ t_saves = 3
    /\ t_w[1] = [pc |-> "idle", rec |-> CardRecord(1, 2), returned |-> "True"]
    /\ t_w[2] = [pc |-> "idle", rec |-> CardRecord(2, 1), returned |-> "True"]
    /\ t_cards = {CardRecord(1, 2), CardRecord(2, 1)}

\* C26: in both seeding paths a persistence failure on one row is caught, the
\* row leaves nothing in the table, and the rows that remain are still
\* attempted: save_card_to_db returns False with the worker free for its next
\* card, and seed_cards goes on to the next row of cards_to_seed.
C26_RowFailureDoesNotAbort ==
    [][ /\ \A w \in Savers :
              t_w'[w] # t_w[w] /\ t_w'[w].returned = "False" =>
                  t_cards' = t_cards /\ t_w'[w].pc = "idle"
        /\ t_mode = "seed" /\ t_seed'.failed # t_seed.failed =>
              /\ t_cards' = t_cards
              /\ t_seed'.pc # "raised"
              /\ t_seed'.k = t_seed.k + 1 ]_vars

----------------------------------------------------------------------------
(* gather_card_data.py: the tasks writing the output CSV                    *)

NumGatherTasks == 3

GatherTasks == 1..NumGatherTasks

HeaderLine == [header |-> TRUE, card |-> 0]
RowLine(card_id) == [header |-> FALSE, card |-> card_id]

\* save_card_to_csv, the body under csv_lock: the file afterwards
save_card_to_csv(file, card_id, write_header) ==
    LET file_exists == file # <<>>
        mode == IF file_exists /\ ~write_header THEN "a" ELSE "w"
        opened == IF mode = "a" THEN file ELSE <<>>
        headed == IF write_header \/ ~file_exists THEN Append(opened, HeaderLine) ELSE opened
    IN Append(headed, RowLine(card_id))

GatherRunning == { t \in GatherTasks : g_t[t].pc \notin {"queued", "done"} }

\* a pool thread takes the task
GatherStart(t) ==
    /\ g_t[t].pc = "queued"
    /\ Cardinality(GatherRunning) < g_workers
    /\ g_t' = [g_t EXCEPT ![t].pc = "fetch"]
    /\ UNCHANGED <<g_workers, g_flag, g_file,
                   v_vars, p_vars, r_vars, d_vars, m_vars, s_vars, f_vars, t_vars>>

\* fetch_card_data: a card, or none (or an exception): the task returns False
GatherFetch(t) ==
    /\ g_t[t].pc = "fetch"
    /\ \E found \in BOOLEAN :
        g_t' = [g_t EXCEPT ![t].pc = IF found THEN "read" ELSE "done"]
    /\ UNCHANGED <<g_workers, g_flag, g_file,
                   v_vars, p_vars, r_vars, d_vars, m_vars, s_vars, f_vars, t_vars>>

\* write_header = not header_written[0], read outside csv_lock
ReadHeaderWritten(t) ==
    /\ g_t[t].pc = "read"
    /\ g_t' = [g_t EXCEPT ![t].pc = "save", ![t].write_header = ~g_flag]
    /\ UNCHANGED <<g_workers, g_flag, g_file,
                   v_vars, p_vars, r_vars, d_vars, m_vars, s_vars, f_vars, t_vars>>

\* save_card_to_csv under csv_lock; an error opening the file is caught by the
\* task's `except Exception`, which returns False
SaveToCsv(t) ==
    /\ g_t[t].pc = "save"
    /\ \E ok \in BOOLEAN :
        IF ok
        THEN /\ g_file' = save_card_to_csv(g_file, t, g_t[t].write_header)
             /\ g_t' = [g_t EXCEPT ![t].pc = "set"]
        ELSE /\ g_t' = [g_t EXCEPT ![t].pc = "done"]
             /\ UNCHANGED g_file
    /\ UNCHANGED <<g_workers, g_flag,
                   v_vars, p_vars, r_vars, d_vars, m_vars, s_vars, f_vars, t_vars>>

\* if write_header: header_written[0] = True; the task returns True
SetHeaderWritten(t) ==
    /\ g_t[t].pc = "set"
    /\ g_flag' = (g_flag \/ g_t[t].write_header)
    /\ g_t' = [g_t EXCEPT ![t].pc = "done", ![t].success = TRUE]
    /\ UNCHANGED <<g_workers, g_file,
                   v_vars, p_vars, r_vars, d_vars, m_vars, s_vars, f_vars, t_vars>>

\* main up to the submission: the old output is removed, header_written = [False]
InitGather ==
    /\ g_workers \in 2..NumGatherTasks
    /\ g_flag = FALSE
    /\ g_file = <<>>
    /\ g_t = [t \in GatherTasks |-> [pc |-> "queued", write_header |-> FALSE, success |-> FALSE]]
    /\ F_Idle /\ T_Idle
    /\ V_Idle /\ P_Idle /\ R_Idle /\ D_Idle /\ M_Idle /\ S_Idle

NextGather ==
    \E t \in GatherTasks :
        \/ GatherStart(t)
        \/ GatherFetch(t)
        \/ ReadHeaderWritten(t)
        \/ SaveToCsv(t)
        \/ SetHeaderWritten(t)

SpecGather == InitGather /\ [][NextGather]_vars

----------------------------------------------------------------------------
(* Properties of the output CSV                                             *)

G_Successful == { t \in GatherTasks : g_t[t].success }
G_Ended == \A t \in GatherTasks : g_t[t].pc = "done"
G_Rows(file) == { file[i].card : i \in { j \in 1..Len(file) : ~file[j].header } }

\* C27: under every interleaving the CSV at the end of the run is one header
\* line followed by exactly one row for every card reported successful, and no
\* row once written is lost or overwritten by a later writer.
C27_CsvHeaderOnceRowPerCard ==
    [][ /\ G_Rows(g_file) \subseteq G_Rows(g_file')
        /\ G_Ended' /\ G_Successful' # {} =>
              /\ Len(g_file') = 1 + Cardinality(G_Successful')
              /\ g_file'[1] = HeaderLine
              /\ \A i \in 2..Len(g_file') : ~g_file'[i].header
              /\ G_Rows(g_file') = G_Successful' ]_vars

----------------------------------------------------------------------------
(* calculate_tributes                                                       *)

s3Tribute == <<"3"," ","t","r","i","b","u","t","e">>
sThreeTribute == <<"t","h","r","e","e"," ","t","r","i","b","u","t","e">>

\* "3 tribute" in desc_lower or "three tribute" in desc_lower
MentionsThreeTributes(description) ==
    LET desc_lower == LowerStr(description) IN
    IsSubstring(s3Tribute, desc_lower) \/ IsSubstring(sThreeTribute, desc_lower)

calculate_tributes(level, description) ==
    IF level <= 0 THEN 0
    ELSE IF level <= 4 THEN 0
    ELSE IF level <= 6 THEN 1
    ELSE IF level <= 10
         THEN IF Truthy(description) /\ MentionsThreeTributes(description.val)
              THEN 3 ELSE 2
    ELSE 3

----------------------------------------------------------------------------
(* Calls of normalize_name, get_card_url_patterns and calculate_tributes    *)

MaxNameLen == 4
MaxTributeLevel == 13

\* an upper-case letter, a digit, whitespace, punctuation and the underscore
NameAlphabet == {"A", "1", " ", "_", "#", "'"}

RECURSIVE TextsUpTo(_, _)
TextsUpTo(alphabet, n) ==
    IF n = 0 THEN {<<>>}
    ELSE LET shorter == TextsUpTo(alphabet, n - 1) IN
         shorter \cup { <<c>> \o t : c \in alphabet, t \in {u \in shorter : Len(u) = n - 1} }

Names == TextsUpTo(NameAlphabet, MaxNameLen)

TributeLevels == (0 - 1)..MaxTributeLevel

Descriptions ==
    { None, Some(<<>>),
      Some(<<"2"," ","T","r","i","b","u","t","e","s">>),
      Some(<<"3"," ","T","r","i","b","u","t","e","s">>),
      Some(<<"T","h","r","e","e"," ","t","r","i","b","u","t","e","s">>) }

InitFunctions ==
    /\ F_Idle /\ T_Idle /\ G_Idle
    /\ V_Idle /\ P_Idle /\ R_Idle /\ D_Idle /\ M_Idle /\ S_Idle

NormalizeName ==
    /\ f_call = "none"
    /\ \E name \in Names :
        /\ f_call' = "normalize_name"
        /\ f_name' = name
        /\ f_norm' = normalize_name(name)
        /\ f_level' = 0 /\ f_desc' = None /\ f_urls' = <<>> /\ f_tributes' = 0
        /\ UNCHANGED <<v_vars, p_vars, r_vars, d_vars, m_vars, s_vars, t_vars, g_vars>>

UrlPatterns ==
    /\ f_call = "none"
    /\ \E card_name \in Names :
        /\ f_call' = "get_card_url_patterns"
        /\ f_name' = card_name
        /\ f_urls' = get_card_url_patterns(card_name)
        /\ f_level' = 0 /\ f_desc' = None /\ f_norm' = <<>> /\ f_tributes' = 0
        /\ UNCHANGED <<v_vars, p_vars, r_vars, d_vars, m_vars, s_vars, t_vars, g_vars>>

CalculateTributes ==
    /\ f_call = "none"
    /\ \E level \in TributeLevels, description \in Descriptions :
        /\ f_call' = "calculate_tributes"
        /\ f_level' = level
        /\ f_desc' = description
        /\ f_tributes' = calculate_tributes(level, description)
        /\ f_name' = <<>> /\ f_norm' = <<>> /\ f_urls' = <<>>
        /\ UNCHANGED <<v_vars, p_vars, r_vars, d_vars, m_vars, s_vars, t_vars, g_vars>>

NextFunctions == NormalizeName \/ UrlPatterns \/ CalculateTributes

SpecFunctions == InitFunctions /\ [][NextFunctions]_vars

----------------------------------------------------------------------------
(* Properties of the pure functions                                         *)

F_LowerAlnum == Range(LowerChars) \cup Digits

\* only lower-case letters, digits and single spaces, no space at either end
F_Clean(s) ==
    /\ \A i \in 1..Len(s) : s[i] \in F_LowerAlnum \cup {" "}
    /\ \A i \in 1..(Len(s) - 1) : ~(s[i] = " " /\ s[i + 1] = " ")
    /\ s # <<>> => s[1] # " " /\ s[Len(s)] # " "

\* C21: normalize_name is idempotent, and its value contains only lower-case
\* alphanumeric characters and single spaces, with no space at either end and
\* no punctuation character of any kind, the underscore included.
C21_NormalizeIdempotentAndClean ==
    f_call = "normalize_name" =>
        /\ normalize_name(f_norm) = f_norm
        /\ F_Clean(f_norm)

\* the positions of the six variants that hold a string not seen earlier
F_Firsts(card_name) ==
    LET v == Variants(card_name) IN
    { i \in 1..Len(v) : \A j \in 1..(i - 1) : v[j] # v[i] }

\* C22: get_card_url_patterns returns a non-empty list of at most 6 entries
\* without a duplicate, holding each distinct variant at the position of its
\* first occurrence in the order 1..6; the first entry is variant 1.
C22_PatternsDistinctInVariantOrder ==
    f_call = "get_card_url_patterns" =>
        LET v == Variants(f_name)
            firsts == F_Firsts(f_name) IN
        /\ Len(f_urls) >= 1 /\ Len(f_urls) <= 6
        /\ \A a, b \in 1..Len(f_urls) : a # b => f_urls[a] # f_urls[b]
        /\ Len(f_urls) = Cardinality(firsts)
        /\ \A i \in firsts : f_urls[Cardinality({j \in firsts : j <= i})] = v[i]
        /\ f_urls[1] = pattern1(f_name)

C22_Witness ==
    /\ f_call = "get_card_url_patterns"
    /\ f_name = <<"A", " ", "#", "1">>
    /\ Len(f_urls) > 1 /\ Len(f_urls) < 6
    /\ f_urls[1] = <<"A", "_", "1">>

\* C28: calculate_tributes is 0 up to level 4, 1 for levels 5 and 6, and from
\* level 7 on it is 2 unless the description mentions a 3-tribute requirement,
\* in which case it is 3.
C28_TributesByLevel ==
    f_call = "calculate_tributes" =>
        f_tributes =
            IF f_level <= 4 THEN 0
            ELSE IF f_level <= 6 THEN 1
            ELSE IF f_desc.some /\ MentionsThreeTributes(f_desc.val) THEN 3
            ELSE 2

====
